---- MODULE Spec2Model ----
(***************************************************************************)
(* Model of the experimental table interface of client/table.go: the       *)
(* binding registry (BindModel, getModel), the key builder                 *)
(* (encodePrimaryKey, decodePrimaryKey, encodeColumnKey), the value        *)
(* marshaler, the structured batch operations and the scan post-processing *)
(* step, and the table metadata operations CreateTable and RenameTable.    *)
(*                                                                         *)
(* Bytes are naturals 0..255, byte strings are sequences of bytes.         *)
(* Go strings and []byte are byte strings.                                 *)
(***************************************************************************)
EXTENDS Integers, Sequences, FiniteSets, TLC

VARIABLES
    experimentalModels, \* db.experimentalModels: bound type -> model
    store,              \* the key-value store: column key -> proto.Value
    call,               \* the arguments of the operation that ran last
    err,                \* the error that operation returned or recorded
    rows,               \* the dest slice of the last ScanStruct
    obj,                \* the record a pointer-taking operation was given
    ret,                \* what the key builder or marshaler returned last
    calls,              \* b.calls of the batch being built
    results,            \* b.Results of the batch being built
    names,              \* name-metadata keys: table name -> descriptor key
    descs,              \* descriptor keys: descriptor key -> descriptor
    idgen,              \* the value at keys.DescIDGenerator
    procs,              \* the position and locals of each metadata call
    written             \* history: the field value last put in each column

vars == <<experimentalModels, store, call, err, rows, obj, ret, calls, results,
          names, descs, idgen, procs, written>>

\* The variables of the structured operations, which the metadata
\* operations leave alone.
clientVars == <<experimentalModels, store, call, err, rows, obj, ret, calls,
                results, written>>

NoCall == [op |-> "none"]
NoErr == "nil"

(***************************************************************************)
(* Byte strings.                                                           *)
(***************************************************************************)
Range(s) == {s[i] : i \in 1..Len(s)}

\* bytes.HasPrefix(s, prefix)
HasPrefix(s, prefix) ==
    /\ Len(prefix) <= Len(s)
    /\ \A i \in 1..Len(prefix) : s[i] = prefix[i]

\* bytes.Compare(a, b) < 0: the order of keys in the store.
RECURSIVE BytesLess(_, _)
BytesLess(a, b) ==
    IF b = <<>> THEN FALSE
    ELSE IF a = <<>> THEN TRUE
    ELSE IF Head(a) # Head(b) THEN Head(a) < Head(b)
    ELSE BytesLess(Tail(a), Tail(b))

(***************************************************************************)
(* Go strings used as names, and their bytes ([]byte(s) and string(b)).    *)
(***************************************************************************)
NameBytes ==
    [K |-> <<75>>, V |-> <<86>>, N |-> <<78>>, M |-> <<77>>, X |-> <<88>>,
     S |-> <<83>>, Y |-> <<89>>, I |-> <<73>>, U |-> <<85>>, B |-> <<66>>,
     kv |-> <<107, 118>>, blob |-> <<98, 108>>, tag |-> <<116>>,
     row |-> <<114, 111, 119>>, bin |-> <<98, 105, 110>>]

\* []byte(s) for a name s.
StrBytes(s) == NameBytes[s]

\* string(b) for bytes b: the name with these bytes, "?" for bytes that are
\* no name of the model (a string no field map and no model holds).
BytesStr(b) ==
    IF \E s \in DOMAIN NameBytes : NameBytes[s] = b
    THEN CHOOSE s \in DOMAIN NameBytes : NameBytes[s] = b
    ELSE "?"

(***************************************************************************)
(* util/encoding: the order-preserving codec the key builder calls.        *)
(***************************************************************************)
\* The escaped form of a byte string: 0x00 becomes 0x00 0xff.
RECURSIVE EscapeBytes(_)
EscapeBytes(data) ==
    IF data = <<>> THEN <<>>
    ELSE (IF Head(data) = 0 THEN <<0, 255>> ELSE <<Head(data)>>)
         \o EscapeBytes(Tail(data))

\* roachencoding.EncodeBytes(b, data): escaped data and the terminator 0x00 0x01.
EncodeBytes(b, data) == b \o EscapeBytes(data) \o <<0, 1>>

\* roachencoding.DecodeBytes(b, nil): [rest, data]; a buffer without a
\* terminator decodes to all of its bytes and leaves nothing.
RECURSIVE DecodeBytesFrom(_, _)
DecodeBytesFrom(b, acc) ==
    IF b = <<>> THEN [rest |-> <<>>, data |-> acc]
    ELSE IF Head(b) # 0 THEN DecodeBytesFrom(Tail(b), Append(acc, Head(b)))
    ELSE IF Len(b) = 1 THEN [rest |-> <<>>, data |-> acc]
    ELSE IF b[2] = 1 THEN [rest |-> SubSeq(b, 3, Len(b)), data |-> acc]
    ELSE DecodeBytesFrom(SubSeq(b, 3, Len(b)), Append(acc, 0))

DecodeBytes(b) == DecodeBytesFrom(b, <<>>)

\* The big-endian bytes of a natural number, none for 0.
RECURSIVE BigEndian(_)
BigEndian(n) ==
    IF n = 0 THEN <<>> ELSE Append(BigEndian(n \div 256), n % 256)

RECURSIVE Pow256(_)
Pow256(n) == IF n = 0 THEN 1 ELSE 256 * Pow256(n - 1)

\* roachencoding.EncodeUvarint(b, v): the byte 8+n and the n bytes of v.
EncodeUvarint(b, v) == b \o <<8 + Len(BigEndian(v))>> \o BigEndian(v)

\* roachencoding.EncodeVarint(b, v): a negative v takes the byte 8-n and the
\* low n bytes of its two's complement.
EncodeVarint(b, v) ==
    IF v >= 0 THEN EncodeUvarint(b, v)
    ELSE LET n == Len(BigEndian(-v))
             low == BigEndian(Pow256(n) + v)
             pad == [i \in 1..(n - Len(low)) |-> 0]
         IN  b \o <<8 - n>> \o pad \o low

RECURSIVE FromBigEndian(_)
FromBigEndian(bs) ==
    IF bs = <<>> THEN 0
    ELSE 256 * FromBigEndian(SubSeq(bs, 1, Len(bs) - 1)) + bs[Len(bs)]

\* roachencoding.DecodeUvarint(b): [rest, value].
DecodeUvarint(b) ==
    [rest |-> SubSeq(b, 2 + (Head(b) - 8), Len(b)),
     value |-> FromBigEndian(SubSeq(b, 2, 1 + (Head(b) - 8)))]

\* roachencoding.DecodeVarint(b): [rest, value].
DecodeVarint(b) ==
    LET tag == Head(b)
        n == IF tag >= 8 THEN tag - 8 ELSE 8 - tag
        body == SubSeq(b, 2, 1 + n)
        rest == SubSeq(b, 2 + n, Len(b))
    IN  [rest |-> rest,
         value |-> IF tag >= 8 THEN FromBigEndian(body)
                   ELSE FromBigEndian(body) - Pow256(n)]

(***************************************************************************)
(* Go values.  An int64, bool, or string is an integer, a boolean, a byte  *)
(* string.  A uint64, and the int64 of a proto.Value, is the number        *)
(* k * 2^63 + n written [k, n], so that the values next to 0, 2^63 and     *)
(* 2^64 and the conversions between int64 and uint64 are exact.  A float64 *)
(* is its sign bit and the rest of its bits, IEEE 754.  A []byte is nil or *)
(* holds data.                                                             *)
(***************************************************************************)
Wide(n) == [k |-> 0, n |-> n]

\* int64(n) for the int64 n of a proto.Value that is in the range of the
\* model's integers.
Narrow(w) == CASE w.k = 0 -> w.n

\* int64(u) for a uint64 u: u - 2^64 when u >= 2^63.
ToInt64(u) ==
    IF u.k = 2 \/ (u.k = 1 /\ u.n >= 0) THEN [u EXCEPT !.k = @ - 2] ELSE u

\* uint64(i) for an int64 i: i + 2^64 when i < 0.
ToUint64(i) ==
    IF i.k = -1 \/ (i.k = 0 /\ i.n < 0) THEN [i EXCEPT !.k = @ + 2] ELSE i

\* math.Float64bits(f) and math.Float64frombits(u): the sign is bit 63.
Float64bits(f) == [k |-> IF f.neg THEN 1 ELSE 0, n |-> f.rest]
Float64frombits(u) == [neg |-> u.k = 1, rest |-> u.n]

NilSlice == [isNil |-> TRUE, data |-> <<>>]
Slice(data) == [isNil |-> FALSE, data |-> data]

(***************************************************************************)
(* Record types of the application.  A record is a function from field     *)
(* names to values; a string field holds a byte string, an int field an    *)
(* integer, a map field (a kind no codec supports) an opaque token.        *)
(***************************************************************************)
TypeNames == {"KV", "Blob", "Tag", "Row", "Bin", "Alt"}

\* getDBFields(t): column name -> field (here the field's kind).
getDBFields(t) ==
    CASE t = "KV"   -> [K |-> "string", V |-> "string", N |-> "int"]
      [] t = "Blob" -> [K |-> "string", V |-> "string", M |-> "map"]
      [] t = "Tag"  -> [K |-> "string"]
      [] t = "Row"  -> [S |-> "string", I |-> "int",
                        U |-> "uint", B |-> "bool"]
      [] t = "Bin"  -> [Y |-> "bytes"]
      [] t = "Alt"  -> [K |-> "string", N |-> "string", X |-> "string"]

\* reflect.Zero for a field kind.
ZeroOf(kind) ==
    CASE kind = "string" -> <<>>
      [] kind = "bytes"  -> NilSlice
      [] kind = "int"    -> 0
      [] kind = "uint"   -> Wide(0)
      [] kind = "float"  -> [neg |-> FALSE, rest |-> 0]
      [] kind = "bool"   -> FALSE
      [] kind = "map"    -> "nilmap"

\* reflect.Zero(t): the zero record of a type.
ZeroRecord(t) == [c \in DOMAIN getDBFields(t) |-> ZeroOf(getDBFields(t)[c])]

(***************************************************************************)
(* The model of a bound type and the binding registry.                     *)
(***************************************************************************)
\* The orders in which Go may range over a set of map keys.
Orders(S) == {q \in [1..Cardinality(S) -> S] : Range(q) = S}

\* The model BindModel builds (lines 354-367): otherColumns are the fields
\* that are no primary key column, in the order the range over m.fields
\* yielded them.
NewModel(name, t, primaryKey, order) ==
    [name |-> name, fields |-> getDBFields(t),
     primaryKey |-> primaryKey, otherColumns |-> order]

\* The orders the range over m.fields can give otherColumns.
OtherColumnOrders(t, primaryKey) ==
    Orders(DOMAIN getDBFields(t) \ Range(primaryKey))

\* BindModel that replaces the binding of a type that is bound.
BindModel_Rebind(reg, name, t, primaryKey, order) ==
    [err |-> NoErr,
     reg |-> [x \in DOMAIN reg \cup {t} |->
                IF x = t THEN NewModel(name, t, primaryKey, order) ELSE reg[x]]]

\* BindModel that looks the primary-key columns up in the fields.
BindModel_CheckKey(reg, name, t, primaryKey, order) ==
    IF t \in DOMAIN reg THEN [err |-> "already defined", reg |-> reg]
    ELSE IF Range(primaryKey) \ DOMAIN getDBFields(t) # {}
    THEN [err |-> "unable to find field", reg |-> reg]
    ELSE [err |-> NoErr,
          reg |-> [x \in DOMAIN reg \cup {t} |->
                     IF x = t THEN NewModel(name, t, primaryKey, order) ELSE reg[x]]]

\* BindModel that refuses a table name another type is bound to.
BindModel_UniqueName(reg, name, t, primaryKey, order) ==
    IF t \in DOMAIN reg THEN [err |-> "already defined", reg |-> reg]
    ELSE IF \E x \in DOMAIN reg : reg[x].name = name
    THEN [err |-> "table already bound", reg |-> reg]
    ELSE [err |-> NoErr,
          reg |-> [x \in DOMAIN reg \cup {t} |->
                     IF x = t THEN NewModel(name, t, primaryKey, order) ELSE reg[x]]]

\* db.BindModel(name, obj, primaryKey...), obj of type t or *t (deref), on
\* the registry reg: [err, reg], the error returned and
\* db.experimentalModels afterwards (lines 342-373).
BindModel(reg, name, t, primaryKey, order) ==
    IF t \in DOMAIN reg THEN [err |-> "already defined", reg |-> reg]
    ELSE [err |-> NoErr,
          reg |-> [x \in DOMAIN reg \cup {t} |->
                     IF x = t THEN NewModel(name, t, primaryKey, order) ELSE reg[x]]]

\* db.experimentalModels after a BindModel.
BindModelRegistry(reg, name, t, primaryKey, order) ==
    BindModel(reg, name, t, primaryKey, order).reg

\* getModel that looks the type up before it checks that it is a pointer.
getModel_LookupFirst(reg, t, isPtr, mustBePointer) ==
    IF t \notin DOMAIN reg THEN [err |-> "unable to find model"]
    ELSE IF mustBePointer /\ ~isPtr THEN [err |-> "pointer type required"]
    ELSE [err |-> NoErr, m |-> reg[t]]

\* db.getModel(t, mustBePointer), t given as its element type and whether it
\* is a pointer type.
getModel(reg, t, isPtr, mustBePointer) ==
    IF mustBePointer /\ ~isPtr THEN [err |-> "pointer type required"]
    ELSE IF t \in DOMAIN reg THEN [err |-> NoErr, m |-> reg[t]]
    ELSE [err |-> "unable to find model"]

(***************************************************************************)
(* The key builder.                                                        *)
(***************************************************************************)
\* encodeTableKey with strings and bytes appended without a terminator.
encodeTableKey_Unterminated(b, kind, v) ==
    CASE kind = "string" -> [err |-> NoErr, key |-> b \o EscapeBytes(v)]
      [] kind = "bytes" -> [err |-> NoErr, key |-> b \o EscapeBytes(v.data)]
      [] kind = "bool" ->
            [err |-> NoErr, key |-> EncodeVarint(b, IF v THEN 1 ELSE 0)]
      [] kind = "int"  -> [err |-> NoErr, key |-> EncodeVarint(b, v)]
      [] kind = "uint" -> [err |-> NoErr, key |-> EncodeUvarint(b, Narrow(v))]
      [] kind = "map"  -> [err |-> "unable to encode key", key |-> <<>>]

\* encodeTableKey with signed integers encoded as unsigned ones, modulo 2^16.
encodeTableKey_IntAsUint(b, kind, v) ==
    CASE kind = "bytes"  -> [err |-> NoErr, key |-> EncodeBytes(b, v.data)]
      [] kind = "string" -> [err |-> NoErr, key |-> EncodeBytes(b, v)]
      [] kind = "bool" ->
            [err |-> NoErr, key |-> EncodeVarint(b, IF v THEN 1 ELSE 0)]
      [] kind = "int"  -> [err |-> NoErr, key |-> EncodeUvarint(b, v % 65536)]
      [] kind = "uint" -> [err |-> NoErr, key |-> EncodeUvarint(b, Narrow(v))]
      [] kind = "map"  -> [err |-> "unable to encode key", key |-> <<>>]

\* encodeTableKey(b, v) for a field of the given kind.
encodeTableKey(b, kind, v) ==
    CASE kind = "bytes"  -> [err |-> NoErr, key |-> EncodeBytes(b, v.data)]
      [] kind = "string" -> [err |-> NoErr, key |-> EncodeBytes(b, v)]
      [] kind = "bool" ->
            [err |-> NoErr, key |-> EncodeVarint(b, IF v THEN 1 ELSE 0)]
      [] kind = "int"  -> [err |-> NoErr, key |-> EncodeVarint(b, v)]
      [] kind = "uint" -> [err |-> NoErr, key |-> EncodeUvarint(b, Narrow(v))]
      [] kind = "map"  -> [err |-> "unable to encode key", key |-> <<>>]

\* decodeTableKey with a bool set when the decoded integer is 0.
decodeTableKey_BoolInverted(b, kind) ==
    CASE kind = "bytes" ->
            [err |-> NoErr, rest |-> DecodeBytes(b).rest,
             val |-> IF DecodeBytes(b).data = <<>> THEN NilSlice
                     ELSE Slice(DecodeBytes(b).data)]
      [] kind = "string" ->
            [err |-> NoErr, rest |-> DecodeBytes(b).rest, val |-> DecodeBytes(b).data]
      [] kind = "bool" ->
            [err |-> NoErr, rest |-> DecodeVarint(b).rest,
             val |-> DecodeVarint(b).value = 0]
      [] kind = "int" ->
            [err |-> NoErr, rest |-> DecodeVarint(b).rest, val |-> DecodeVarint(b).value]
      [] kind = "uint" ->
            [err |-> NoErr, rest |-> DecodeUvarint(b).rest,
             val |-> Wide(DecodeUvarint(b).value)]
      [] kind = "map" ->
            [err |-> "unable to decode key", rest |-> <<>>, val |-> ZeroOf(kind)]

\* decodeTableKey(b, v) for a field of the given kind: [err, rest, val].
decodeTableKey(b, kind) ==
    CASE kind = "bytes" ->
            [err |-> NoErr, rest |-> DecodeBytes(b).rest,
             val |-> IF DecodeBytes(b).data = <<>> THEN NilSlice
                     ELSE Slice(DecodeBytes(b).data)]
      [] kind = "string" ->
            [err |-> NoErr, rest |-> DecodeBytes(b).rest, val |-> DecodeBytes(b).data]
      [] kind = "bool" ->
            [err |-> NoErr, rest |-> DecodeVarint(b).rest,
             val |-> DecodeVarint(b).value # 0]
      [] kind = "int" ->
            [err |-> NoErr, rest |-> DecodeVarint(b).rest, val |-> DecodeVarint(b).value]
      [] kind = "uint" ->
            [err |-> NoErr, rest |-> DecodeUvarint(b).rest,
             val |-> Wide(DecodeUvarint(b).value)]
      [] kind = "map" ->
            [err |-> "unable to decode key", rest |-> <<>>, val |-> ZeroOf(kind)]

\* The loop of encodePrimaryKey over m.primaryKey from column i on.
RECURSIVE encodePrimaryKeyFrom(_, _, _, _)
encodePrimaryKeyFrom(m, v, i, key) ==
    IF i > Len(m.primaryKey) THEN [err |-> NoErr, key |-> key]
    ELSE LET col == m.primaryKey[i] IN
         IF col \notin DOMAIN m.fields
         THEN [err |-> "unable to find field", key |-> <<>>]
         ELSE LET e == encodeTableKey(key, m.fields[col], v[col]) IN
              IF e.err # NoErr THEN e
              ELSE encodePrimaryKeyFrom(m, v, i + 1, e.key)

\* m.encodePrimaryKey(v): [err, key].
encodePrimaryKey(m, v) ==
    encodePrimaryKeyFrom(m, v, 1, EncodeBytes(<<>>, StrBytes(m.name)))

\* The loop of decodePrimaryKey over m.primaryKey from column i on; v is
\* written in place, so it keeps the fields decoded before an error.
RECURSIVE decodePrimaryKeyFrom(_, _, _, _)
decodePrimaryKeyFrom(m, key, v, i) ==
    IF i > Len(m.primaryKey) THEN [err |-> NoErr, rest |-> key, v |-> v]
    ELSE LET col == m.primaryKey[i] IN
         IF col \notin DOMAIN m.fields
         THEN [err |-> "unable to find field", rest |-> <<>>, v |-> v]
         ELSE LET d == decodeTableKey(key, m.fields[col]) IN
              IF d.err # NoErr THEN [err |-> d.err, rest |-> <<>>, v |-> v]
              ELSE decodePrimaryKeyFrom(m, d.rest, [v EXCEPT ![col] = d.val], i + 1)

\* m.decodePrimaryKey(key, v): [err, rest, v].
decodePrimaryKey(m, key, v) ==
    LET n == DecodeBytes(key) IN
    IF BytesStr(n.data) # m.name
    THEN [err |-> "unexpected table name", rest |-> <<>>, v |-> v]
    ELSE decodePrimaryKeyFrom(m, n.rest, v, 1)

\* encodeColumnKey with the column left out.
encodeColumnKey_NoColumn(primaryKey, column) == primaryKey

\* m.encodeColumnKey(primaryKey, column).
encodeColumnKey(primaryKey, column) == primaryKey \o StrBytes(column)

(***************************************************************************)
(* The value marshaler.  A proto.Value has an optional Integer and an      *)
(* optional Bytes; a *proto.Value may be nil.                              *)
(***************************************************************************)
NilValue == [isNil |-> TRUE, hasInt |-> FALSE, Integer |-> Wide(0),
             hasBytes |-> FALSE, Bytes |-> <<>>]
EmptyValue == [isNil |-> FALSE, hasInt |-> FALSE, Integer |-> Wide(0),
               hasBytes |-> FALSE, Bytes |-> <<>>]
IntValue(i) == [isNil |-> FALSE, hasInt |-> TRUE, Integer |-> i,
                hasBytes |-> FALSE, Bytes |-> <<>>]
BytesValue(b) == [isNil |-> FALSE, hasInt |-> FALSE, Integer |-> Wide(0),
                  hasBytes |-> TRUE, Bytes |-> b]

\* marshalTableValue with the float stored as its bits below the sign bit.
marshalTableValue_FloatTruncated(kind, v) ==
    CASE kind = "string" -> [err |-> NoErr, value |-> BytesValue(v)]
      [] kind = "bytes"  ->
            [err |-> NoErr,
             value |-> IF v.isNil THEN EmptyValue ELSE BytesValue(v.data)]
      [] kind = "bool"   ->
            [err |-> NoErr, value |-> IntValue(Wide(IF v THEN 1 ELSE 0))]
      [] kind = "int"    -> [err |-> NoErr, value |-> IntValue(Wide(v))]
      [] kind = "uint"   -> [err |-> NoErr, value |-> IntValue(ToInt64(v))]
      [] kind = "float"  -> [err |-> NoErr, value |-> IntValue(Wide(v.rest))]
      [] kind = "map"    -> [err |-> "unable to marshal value", value |-> EmptyValue]

\* marshalTableValue(v) for a field of the given kind: [err, value].  The
\* Bytes of the value are v itself for a []byte, nil when v is.
marshalTableValue(kind, v) ==
    CASE kind = "string" -> [err |-> NoErr, value |-> BytesValue(v)]
      [] kind = "bytes"  ->
            [err |-> NoErr,
             value |-> IF v.isNil THEN EmptyValue ELSE BytesValue(v.data)]
      [] kind = "bool"   ->
            [err |-> NoErr, value |-> IntValue(Wide(IF v THEN 1 ELSE 0))]
      [] kind = "int"    -> [err |-> NoErr, value |-> IntValue(Wide(v))]
      [] kind = "uint"   -> [err |-> NoErr, value |-> IntValue(ToInt64(v))]
      [] kind = "float"  ->
            [err |-> NoErr, value |-> IntValue(ToInt64(Float64bits(v)))]
      [] kind = "map"    -> [err |-> "unable to marshal value", value |-> EmptyValue]

\* src.GetInteger(): 0 when the value has no integer.
GetInteger(src) == IF src.hasInt THEN src.Integer ELSE Wide(0)

\* unmarshalTableValue that takes the variant the destination wants and
\* never looks at the other one.
unmarshalTableValue_NoTypeCheck(src, kind, old) ==
    IF src.isNil THEN [err |-> NoErr, val |-> ZeroOf(kind)]
    ELSE CASE kind = "string" -> [err |-> NoErr, val |-> src.Bytes]
           [] kind = "bytes" ->
                [err |-> NoErr,
                 val |-> IF src.hasBytes THEN Slice(src.Bytes) ELSE NilSlice]
           [] kind = "bool" -> [err |-> NoErr, val |-> GetInteger(src) # Wide(0)]
           [] kind = "int" -> [err |-> NoErr, val |-> Narrow(GetInteger(src))]
           [] kind = "uint" -> [err |-> NoErr, val |-> ToUint64(GetInteger(src))]
           [] kind = "float" ->
                [err |-> NoErr,
                 val |-> Float64frombits(ToUint64(GetInteger(src)))]
           [] kind = "map" -> [err |-> "unable to unmarshal", val |-> old]

\* unmarshalTableValue(src, dest) for a dest field of the given kind holding
\* old: [err, val], val the field afterwards.
unmarshalTableValue(src, kind, old) ==
    IF src.isNil THEN [err |-> NoErr, val |-> ZeroOf(kind)]
    ELSE CASE kind = "string" ->
                IF src.hasInt THEN [err |-> "unable to unmarshal", val |-> old]
                ELSE IF src.hasBytes THEN [err |-> NoErr, val |-> src.Bytes]
                ELSE [err |-> NoErr, val |-> <<>>]
           [] kind = "bytes" ->
                IF src.hasInt THEN [err |-> "unable to unmarshal", val |-> old]
                ELSE IF src.hasBytes THEN [err |-> NoErr, val |-> Slice(src.Bytes)]
                ELSE [err |-> NoErr, val |-> NilSlice]
           [] kind = "bool" ->
                IF src.hasBytes THEN [err |-> "unable to unmarshal", val |-> old]
                ELSE [err |-> NoErr, val |-> GetInteger(src) # Wide(0)]
           [] kind = "int" ->
                IF src.hasBytes THEN [err |-> "unable to unmarshal", val |-> old]
                ELSE [err |-> NoErr, val |-> Narrow(GetInteger(src))]
           [] kind = "uint" ->
                IF src.hasBytes THEN [err |-> "unable to unmarshal", val |-> old]
                ELSE [err |-> NoErr, val |-> ToUint64(GetInteger(src))]
           [] kind = "float" ->
                IF src.hasBytes THEN [err |-> "unable to unmarshal", val |-> old]
                ELSE [err |-> NoErr,
                      val |-> Float64frombits(ToUint64(GetInteger(src)))]
           [] kind = "map" -> [err |-> "unable to unmarshal", val |-> old]

(***************************************************************************)
(* The key-value store the calls of a batch are sent to.                   *)
(***************************************************************************)
EmptyStore == [k \in {} |-> NilValue]

\* Put(key, value).
StorePut(st, key, value) ==
    [k \in DOMAIN st \cup {key} |-> IF k = key THEN value ELSE st[k]]

\* Delete(key).
StoreDel(st, key) == [k \in DOMAIN st \ {key} |-> st[k]]

\* The keys of a set in ascending byte order.
RECURSIVE SortedKeys(_)
SortedKeys(S) ==
    IF S = {} THEN <<>>
    ELSE LET least == CHOOSE k \in S : \A j \in S : j = k \/ BytesLess(k, j)
         IN  <<least>> \o SortedKeys(S \ {least})

\* Scan(startKey, endKey, maxRows): the pairs with startKey <= key < endKey
\* in ascending key order, at most maxRows of them when maxRows > 0.
StoreScan(st, startKey, endKey, maxRows) ==
    LET inRange == {k \in DOMAIN st : ~BytesLess(k, startKey) /\ BytesLess(k, endKey)}
        keys == SortedKeys(inRange)
        n == IF maxRows > 0 /\ maxRows < Len(keys) THEN maxRows ELSE Len(keys)
    IN  [i \in 1..n |-> [Key |-> keys[i], Value |-> st[keys[i]]]]

(***************************************************************************)
(* The structured operations of a batch.  A batch b is                     *)
(* [calls, results]; an operation given a record gets its type t, whether  *)
(* it was passed as a pointer, and its value v.                            *)
(***************************************************************************)
NewBatch == [calls |-> <<>>, results |-> <<>>]

\* b.initResult(calls, numRows, err).
initResult(b, n, e) ==
    [b EXCEPT !.results = Append(@, [calls |-> n, err |-> e])]

\* FinishStruct for a loop that appends to b.calls as it goes: a failed
\* operation leaves the calls built before the failure in the batch.
FinishStruct_KeepBuilt(b, r) ==
    IF r.err # NoErr THEN initResult([b EXCEPT !.calls = @ \o r.calls], 0, r.err)
    ELSE initResult([b EXCEPT !.calls = @ \o r.calls], Len(r.calls), NoErr)

\* The end of a structured operation (lines 513-514, 571-572, 778-779): a
\* failed one records its error and appends none of the calls it had built,
\* a successful one appends them all.
FinishStruct(b, r) ==
    IF r.err # NoErr THEN initResult(b, 0, r.err)
    ELSE initResult([b EXCEPT !.calls = @ \o r.calls], Len(r.calls), NoErr)

\* The column list an operation uses (lines 489-491).
ColumnsOrDefault(m, columns) ==
    IF Len(columns) = 0 THEN m.otherColumns ELSE columns

\* The loop of GetStruct over the columns (lines 493-511): [err, calls], the
\* calls built when it returned.
RECURSIVE GetStructLoop(_, _, _, _, _)
GetStructLoop(m, primaryKey, columns, i, built) ==
    IF i > Len(columns) THEN [err |-> NoErr, calls |-> built]
    ELSE IF columns[i] \notin DOMAIN m.fields
    THEN [err |-> "unable to find field", calls |-> built]
    ELSE GetStructLoop(m, primaryKey, columns, i + 1,
            Append(built, [op |-> "Get",
                           key |-> encodeColumnKey(primaryKey, columns[i]),
                           col |-> columns[i]]))

\* The calls of b.GetStruct(obj, columns...): [err, calls].
GetStructCalls(reg, t, isPtr, v, columns) ==
    LET g == getModel(reg, t, isPtr, TRUE) IN
    IF g.err # NoErr THEN [err |-> g.err, calls |-> <<>>]
    ELSE LET pk == encodePrimaryKey(g.m, v) IN
         IF pk.err # NoErr THEN [err |-> pk.err, calls |-> <<>>]
         ELSE GetStructLoop(g.m, pk.key, ColumnsOrDefault(g.m, columns), 1, <<>>)

\* b.GetStruct(obj, columns...).
GetStruct(b, reg, t, isPtr, v, columns) ==
    FinishStruct(b, GetStructCalls(reg, t, isPtr, v, columns))

\* The loop of PutStruct over the columns (lines 539-569).
RECURSIVE PutStructLoop(_, _, _, _, _, _)
PutStructLoop(m, primaryKey, v, columns, i, built) ==
    IF i > Len(columns) THEN [err |-> NoErr, calls |-> built]
    ELSE IF columns[i] \notin DOMAIN m.fields
    THEN [err |-> "unable to find field", calls |-> built]
    ELSE LET mv == marshalTableValue(m.fields[columns[i]], v[columns[i]]) IN
         IF mv.err # NoErr THEN [err |-> mv.err, calls |-> built]
         ELSE PutStructLoop(m, primaryKey, v, columns, i + 1,
                Append(built, [op |-> "Put",
                               key |-> encodeColumnKey(primaryKey, columns[i]),
                               value |-> mv.value]))

\* The calls of b.PutStruct(obj, columns...): [err, calls].
PutStructCalls(reg, t, isPtr, v, columns) ==
    LET g == getModel(reg, t, isPtr, FALSE) IN
    IF g.err # NoErr THEN [err |-> g.err, calls |-> <<>>]
    ELSE LET pk == encodePrimaryKey(g.m, v) IN
         IF pk.err # NoErr THEN [err |-> pk.err, calls |-> <<>>]
         ELSE PutStructLoop(g.m, pk.key, v, ColumnsOrDefault(g.m, columns), 1, <<>>)

\* b.PutStruct(obj, columns...).
PutStruct(b, reg, t, isPtr, v, columns) ==
    FinishStruct(b, PutStructCalls(reg, t, isPtr, v, columns))

\* The calls of b.IncStruct(obj, value, column): [err, calls].
IncStructCalls(reg, t, isPtr, v, value, column) ==
    LET g == getModel(reg, t, isPtr, TRUE) IN
    IF g.err # NoErr THEN [err |-> g.err, calls |-> <<>>]
    ELSE LET pk == encodePrimaryKey(g.m, v) IN
         IF pk.err # NoErr THEN [err |-> pk.err, calls |-> <<>>]
         ELSE IF column \notin DOMAIN g.m.fields
         THEN [err |-> "unable to find field", calls |-> <<>>]
         ELSE [err |-> NoErr,
               calls |-> <<[op |-> "Inc",
                            key |-> encodeColumnKey(pk.key, column),
                            value |-> value, col |-> column]>>]

\* b.IncStruct(obj, value, column).
IncStruct(b, reg, t, isPtr, v, value, column) ==
    FinishStruct(b, IncStructCalls(reg, t, isPtr, v, value, column))

\* The loop of DelStruct over the columns (lines 765-776).
RECURSIVE DelStructLoop(_, _, _, _, _)
DelStructLoop(m, primaryKey, columns, i, built) ==
    IF i > Len(columns) THEN [err |-> NoErr, calls |-> built]
    ELSE IF columns[i] \notin DOMAIN m.fields
    THEN [err |-> "unable to find field", calls |-> built]
    ELSE DelStructLoop(m, primaryKey, columns, i + 1,
            Append(built, [op |-> "Del",
                           key |-> encodeColumnKey(primaryKey, columns[i])]))

\* The calls of b.DelStruct(obj, columns...): [err, calls].
DelStructCalls(reg, t, isPtr, v, columns) ==
    LET g == getModel(reg, t, isPtr, FALSE) IN
    IF g.err # NoErr THEN [err |-> g.err, calls |-> <<>>]
    ELSE LET pk == encodePrimaryKey(g.m, v) IN
         IF pk.err # NoErr THEN [err |-> pk.err, calls |-> <<>>]
         ELSE DelStructLoop(g.m, pk.key, ColumnsOrDefault(g.m, columns), 1, <<>>)

\* b.DelStruct(obj, columns...).
DelStruct(b, reg, t, isPtr, v, columns) ==
    FinishStruct(b, DelStructCalls(reg, t, isPtr, v, columns))

\* The calls of b.ScanStruct(dest, start, end, maxRows, columns...): dest is
\* a pointer to a slice or not (destOk), modelT the slice's element type;
\* start and end are given by their types and values.
ScanStructCalls(reg, destOk, modelT, startT, startV, endT, endV, maxRows, columns) ==
    IF ~destOk THEN [err |-> "dest must be a pointer to a slice", calls |-> <<>>]
    ELSE LET g == getModel(reg, modelT, FALSE, FALSE) IN
    IF g.err # NoErr THEN [err |-> g.err, calls |-> <<>>]
    ELSE IF modelT # startT THEN [err |-> "incompatible start key type", calls |-> <<>>]
    ELSE IF modelT # endT THEN [err |-> "incompatible end key type", calls |-> <<>>]
    ELSE LET sk == encodePrimaryKey(g.m, startV) IN
    IF sk.err # NoErr THEN [err |-> sk.err, calls |-> <<>>]
    ELSE LET ek == encodePrimaryKey(g.m, endV) IN
    IF ek.err # NoErr THEN [err |-> ek.err, calls |-> <<>>]
    ELSE [err |-> NoErr,
          calls |-> <<[op |-> "Scan", key |-> sk.key, endKey |-> ek.key,
                       maxRows |-> maxRows, modelT |-> modelT,
                       columns |-> columns]>>]

\* b.ScanStruct(dest, start, end, maxRows, columns...) (lines 736-737: the
\* result of a scan is initialised with no rows).
ScanStruct(b, reg, destOk, modelT, startT, startV, endT, endV, maxRows, columns) ==
    FinishStruct(b, ScanStructCalls(reg, destOk, modelT, startT, startV,
                                    endT, endV, maxRows, columns))

(***************************************************************************)
(* The post-processing step of ScanStruct (lines 673-734).                 *)
(***************************************************************************)
\* ScanAppend without result.Set(zero): the record keeps its fields.
ScanAppend_KeepFields(st, d) ==
    [st EXCEPT !.sliceV = Append(@, st.result), !.err = d.err]

\* Lines 694-705, given the decoding d of the current primary key into a
\* zero record: the current record is appended and d's record replaces it.
ScanAppend(st, d) ==
    [st EXCEPT !.sliceV = Append(@, st.result), !.result = d.v, !.err = d.err]

\* Lines 693-706: at a row whose key does not extend the current primary
\* key the current record is appended and a zero record takes its place,
\* into which the current primary key is decoded.
ScanBoundary(m, modelT, row, st) ==
    IF st.hasKey /\ ~HasPrefix(row.Key, st.primaryKey)
    THEN ScanAppend(st, decodePrimaryKey(m, st.primaryKey, ZeroRecord(modelT)))
    ELSE st

\* ScanColumn with the filter applied before the key is taken over.
ScanColumn_FilterFirst(m, row, columns, st, d) ==
    LET colStr == BytesStr(d.rest)
        keyed == [st EXCEPT !.result = d.v, !.hasKey = TRUE,
                     !.primaryKey = SubSeq(row.Key, 1, Len(row.Key) - Len(d.rest))]
    IN  IF d.err # NoErr THEN [st EXCEPT !.result = d.v, !.err = d.err]
        ELSE IF Len(columns) > 0 /\ colStr \notin Range(columns) THEN st
        ELSE IF colStr \notin DOMAIN m.fields
        THEN [keyed EXCEPT !.err = "unable to find field"]
        ELSE [keyed EXCEPT
                !.result = [d.v EXCEPT ![colStr] =
                    unmarshalTableValue(row.Value, m.fields[colStr], d.v[colStr]).val],
                !.err = unmarshalTableValue(row.Value, m.fields[colStr], d.v[colStr]).err]

\* Lines 712-724, given the decoding d of the row's key into the current
\* record: unless the column is filtered out, the value is unmarshaled.
ScanColumn(m, row, columns, st, d) ==
    LET colStr == BytesStr(d.rest)
        keyed == [st EXCEPT !.result = d.v, !.hasKey = TRUE,
                     !.primaryKey = SubSeq(row.Key, 1, Len(row.Key) - Len(d.rest))]
    IN  IF d.err # NoErr THEN [st EXCEPT !.result = d.v, !.err = d.err]
        ELSE IF Len(columns) > 0 /\ colStr \notin Range(columns) THEN keyed
        ELSE IF colStr \notin DOMAIN m.fields
        THEN [keyed EXCEPT !.err = "unable to find field"]
        ELSE [keyed EXCEPT
                !.result = [d.v EXCEPT ![colStr] =
                    unmarshalTableValue(row.Value, m.fields[colStr], d.v[colStr]).val],
                !.err = unmarshalTableValue(row.Value, m.fields[colStr], d.v[colStr]).err]

\* Lines 708-724: the row's primary key is decoded into the current record
\* and the column is handled.
ScanRow(m, row, columns, st) ==
    ScanColumn(m, row, columns, st, decodePrimaryKey(m, row.Key, st.result))

\* The loop over reply.Rows (lines 692-725) from row i on; an error ends it.
RECURSIVE ScanLoop(_, _, _, _, _, _)
ScanLoopRow(m, modelT, reply, columns, i, r) ==
    IF r.err # NoErr THEN r
    ELSE ScanLoop(m, modelT, reply, columns, i + 1, r)

ScanLoopBoundary(m, modelT, reply, columns, i, b) ==
    IF b.err # NoErr THEN b
    ELSE ScanLoopRow(m, modelT, reply, columns, i, ScanRow(m, reply[i], columns, b))

ScanLoop(m, modelT, reply, columns, i, st) ==
    IF i > Len(reply) THEN st
    ELSE ScanLoopBoundary(m, modelT, reply, columns, i,
                          ScanBoundary(m, modelT, reply[i], st))

\* ScanFlush that sets dest to the records appended before an error.
ScanFlush_KeepPartial(sliceV, st) ==
    IF st.err # NoErr THEN [err |-> st.err, dest |-> st.sliceV]
    ELSE [err |-> NoErr, dest |-> Append(st.sliceV, st.result)]

\* ScanFlush without the append of the last record.
ScanFlush_NoFlush(sliceV, st) ==
    IF st.err # NoErr THEN [err |-> st.err, dest |-> sliceV]
    ELSE [err |-> NoErr, dest |-> st.sliceV]

\* Lines 727-733, given the state st the loop ended in: an error leaves dest
\* as it was, otherwise the last record is appended and dest is set.
ScanFlush(sliceV, st) ==
    IF st.err # NoErr THEN [err |-> st.err, dest |-> sliceV]
    ELSE [err |-> NoErr, dest |-> Append(st.sliceV, st.result)]

\* c.Post of ScanStruct: [err, dest], dest the caller's slice afterwards;
\* sliceV is the slice that dest held when ScanStruct was called.
ScanPost(m, modelT, reply, columns, sliceV) ==
    IF Len(reply) = 0 THEN [err |-> NoErr, dest |-> sliceV]
    ELSE ScanFlush(sliceV,
            ScanLoop(m, modelT, reply, columns, 1,
                     [sliceV |-> sliceV, result |-> ZeroRecord(modelT),
                      hasKey |-> FALSE, primaryKey |-> <<>>, err |-> NoErr]))

(***************************************************************************)
(* Running a batch: every call is sent to the store in order.              *)
(***************************************************************************)
\* The store after the calls from i on.
RECURSIVE SendCalls(_, _, _)
SendCalls(st, cs, i) ==
    IF i > Len(cs) THEN st
    ELSE SendCalls(CASE cs[i].op = "Put" -> StorePut(st, cs[i].key, cs[i].value)
                     [] cs[i].op = "Del" -> StoreDel(st, cs[i].key)
                     [] OTHER            -> st,
                   cs, i + 1)

\* The first error among the results of a batch (runOneResult).
RECURSIVE FirstErr(_, _)
FirstErr(rs, i) ==
    IF i > Len(rs) THEN NoErr
    ELSE IF rs[i].err # NoErr THEN rs[i].err
    ELSE FirstErr(rs, i + 1)

(***************************************************************************)
(* The records and arguments the callers use.                              *)
(***************************************************************************)
MaxRows == 1

RecA1 == [K |-> <<97>>, V |-> <<98>>, N |-> 1]
RecAB == [K |-> <<97, 98>>, V |-> <<98>>, N |-> 2]
RecC  == [K |-> <<99>>, V |-> <<100>>, N |-> 1]
RecZ  == [K |-> <<122>>, V |-> <<>>, N |-> 0]
BlobA == [K |-> <<97>>, V |-> <<98>>, M |-> "m"]
TagA  == [K |-> <<97>>]

\* A caller's record: its type and its value.
KVObjects   == {[t |-> "KV", v |-> r] : r \in {RecA1, RecAB, RecC}}
StartBounds == {[t |-> "KV", v |-> r] : r \in {RecA1, RecAB}}
EndBounds   == {[t |-> "KV", v |-> r] : r \in {RecC, RecZ}}
BlobObject == [t |-> "Blob", v |-> BlobA]
TagObject  == [t |-> "Tag", v |-> TagA]

PutColumnLists  == {<<>>, <<"V">>, <<"K", "V">>, <<"V", "X">>}
DelColumnLists  == {<<>>, <<"V">>, <<"X">>}
ScanColumnLists == {<<>>, <<"V">>, <<"K">>}

\* History: the primary key of a record as a tuple of field values.
KeyTuple(m, v) == [i \in 1..Len(m.primaryKey) |-> v[m.primaryKey[i]]]

\* History: the columns an operation names, all that are no key column when
\* it names none.
NamedColumns(m, columns) == IF columns = <<>> THEN m.otherColumns ELSE columns

\* History: written after the calls of a successful PutStruct or DelStruct.
RECURSIVE WrittenAfter(_, _, _, _, _, _)
WrittenAfter(w, m, v, columns, put, i) ==
    IF i > Len(columns) THEN w
    ELSE LET cell == [table |-> m.name, pk |-> KeyTuple(m, v), col |-> columns[i]]
             next == IF put
                     THEN [c \in DOMAIN w \cup {cell} |->
                             IF c = cell THEN v[columns[i]] ELSE w[c]]
                     ELSE [c \in DOMAIN w \ {cell} |-> w[c]]
         IN  WrittenAfter(next, m, v, columns, put, i + 1)

(***************************************************************************)
(* Spec: one caller using the operations of DB on a store, each a batch of *)
(* one structured operation that is run at once (lines 389-427).           *)
(***************************************************************************)
InitOther ==
    /\ calls = <<>>
    /\ results = <<>>
    /\ names = <<>>
    /\ descs = <<>>
    /\ idgen = 0
    /\ procs = <<>>

\* The state after db.BindModel("kv", KV{}, "K") on a new DB.
Init ==
    /\ \E order \in OtherColumnOrders("KV", <<"K">>) :
         experimentalModels = BindModelRegistry(<<>>, "kv", "KV", <<"K">>, order)
    /\ store = EmptyStore
    /\ written = <<>>
    /\ call = NoCall
    /\ err = NoErr
    /\ rows = <<>>
    /\ obj = TagA
    /\ ret = <<>>
    /\ InitOther

\* db.PutStruct(obj, columns...).
DBPutStruct(o, columns) ==
    /\ call = NoCall
    /\ \E isPtr \in BOOLEAN :
         LET b == PutStruct(NewBatch, experimentalModels, o.t, isPtr, o.v, columns)
             m == experimentalModels[o.t]
         IN  /\ store' = SendCalls(store, b.calls, 1)
             /\ err' = FirstErr(b.results, 1)
             /\ written' = IF FirstErr(b.results, 1) = NoErr
                           THEN WrittenAfter(written, m, o.v,
                                             NamedColumns(m, columns), TRUE, 1)
                           ELSE written
    /\ call' = [op |-> "PutStruct", o |-> o, columns |-> columns]
    /\ UNCHANGED <<experimentalModels, rows, obj, ret, calls, results, names, descs,
                   idgen, procs>>

\* db.DelStruct(obj, columns...).
DBDelStruct(o, columns) ==
    /\ call = NoCall
    /\ \E isPtr \in BOOLEAN :
         LET b == DelStruct(NewBatch, experimentalModels, o.t, isPtr, o.v, columns)
             m == experimentalModels[o.t]
         IN  /\ store' = SendCalls(store, b.calls, 1)
             /\ err' = FirstErr(b.results, 1)
             /\ written' = IF FirstErr(b.results, 1) = NoErr
                           THEN WrittenAfter(written, m, o.v,
                                             NamedColumns(m, columns), FALSE, 1)
                           ELSE written
    /\ call' = [op |-> "DelStruct", o |-> o, columns |-> columns]
    /\ UNCHANGED <<experimentalModels, rows, obj, ret, calls, results, names, descs,
                   idgen, procs>>

\* The caller's err and dest after the Post of a scan.
ScanReturn(p) ==
    /\ err' = p.err
    /\ rows' = p.dest

\* runOneResult on a batch b holding one ScanStruct: a scan that recorded an
\* error sends nothing, otherwise its call is sent and its Post runs.
RunScan(b) ==
    IF FirstErr(b.results, 1) # NoErr
    THEN /\ err' = FirstErr(b.results, 1)
         /\ rows' = rows
    ELSE ScanReturn(
            ScanPost(experimentalModels[b.calls[1].modelT], b.calls[1].modelT,
                     StoreScan(store, b.calls[1].key, b.calls[1].endKey,
                               b.calls[1].maxRows),
                     b.calls[1].columns, rows))

\* db.ScanStruct(&dest, start, end, maxRows, columns...), dest a slice of
\* the type of start that holds rows.
DBScanStruct(start, end, maxRows, columns) ==
    /\ call = NoCall
    /\ RunScan(ScanStruct(NewBatch, experimentalModels, TRUE, start.t,
                          start.t, start.v, end.t, end.v, maxRows, columns))
    /\ call' = [op |-> "ScanStruct", start |-> start, end |-> end,
                maxRows |-> maxRows, columns |-> columns]
    /\ UNCHANGED <<experimentalModels, store, written, obj, ret, calls, results,
                   names, descs, idgen, procs>>

\* The operation returns to the caller, who drops its arguments and dest.
Return ==
    /\ call # NoCall
    /\ call' = NoCall
    /\ err' = NoErr
    /\ rows' = <<>>
    /\ UNCHANGED <<experimentalModels, store, written, obj, ret, calls, results,
                   names, descs, idgen, procs>>

Next ==
    \/ \E o \in KVObjects \cup {BlobObject}, columns \in PutColumnLists :
         DBPutStruct(o, columns)
    \/ \E o \in KVObjects \cup {BlobObject}, columns \in DelColumnLists :
         DBDelStruct(o, columns)
    \/ \E start \in StartBounds, end \in EndBounds \cup {BlobObject},
          maxRows \in 0..MaxRows, columns \in ScanColumnLists :
         DBScanStruct(start, end, maxRows, columns)
    \/ Return

Spec == Init /\ [][Next]_vars

(***************************************************************************)
(* What a scan of table kv must return, stated on the history of the       *)
(* values put: no key is encoded or decoded here.                          *)
(***************************************************************************)
KVCell(k, col) == [table |-> "kv", pk |-> <<k>>, col |-> col]

\* The order of two cells in the table: by key, then by column name.
CellLess(c, d) ==
    \/ BytesLess(c.pk[1], d.pk[1])
    \/ c.pk[1] = d.pk[1] /\ BytesLess(StrBytes(c.col), StrBytes(d.col))

\* The cells of records from start (included) to end (excluded).
CellsBetween(start, end) ==
    {c \in DOMAIN written : /\ ~BytesLess(c.pk[1], start.K)
                            /\ BytesLess(c.pk[1], end.K)}

\* The first n of a set of cells, all of them when n = 0.
FirstCells(S, n) ==
    IF n = 0 THEN S
    ELSE {c \in S : Cardinality({d \in S : CellLess(d, c)}) < n}

\* The cells in the reply of the scan that ran last.
ReplyCells ==
    FirstCells(CellsBetween(call.start.v, call.end.v), call.maxRows)

\* The keys of a set of cells.
KeysOf(S) == {c.pk[1] : c \in S}

\* The record of key k holding the columns of cols that are cells of S.
RecordFrom(S, k, cols) ==
    [f \in {"K", "V", "N"} |->
        IF f = "K" THEN k
        ELSE IF f \in cols /\ KVCell(k, f) \in S THEN written[KVCell(k, f)]
        ELSE ZeroOf(getDBFields("KV")[f])]

Ascending(rs) ==
    \A i \in 1..Len(rs), j \in 1..Len(rs) : i < j => BytesLess(rs[i].K, rs[j].K)

ScanRan == call.op = "ScanStruct" /\ call.end.t = "KV"

\* C1: a scan without a column filter returns no error and exactly one
\* record per distinct primary key of the reply, in ascending key order,
\* each with its key fields and exactly the columns the reply holds for it.
C1_ScanReconstruction ==
    (ScanRan /\ call.columns = <<>>) =>
        /\ err = NoErr
        /\ Len(rows) = Cardinality(KeysOf(ReplyCells))
        /\ Ascending(rows)
        /\ \A i \in 1..Len(rows) :
              /\ rows[i].K \in KeysOf(ReplyCells)
              /\ rows[i] = RecordFrom(ReplyCells, rows[i].K, {"V", "N"})

\* A scan returned two records of which the first has a column the second
\* has not.
C1_Witness ==
    /\ ScanRan /\ call.columns = <<>>
    /\ Len(rows) >= 2
    /\ KVCell(rows[1].K, "V") \in ReplyCells
    /\ KVCell(rows[2].K, "V") \notin ReplyCells

\* The three keys k1 < k2 < k3 hold the two columns V and N each, and the
\* scan from k1 to k3 ran, with no row limit and no column filter.
C2_Case ==
    /\ DOMAIN written = {KVCell(k, col) : k \in {RecA1.K, RecAB.K, RecC.K},
                                          col \in {"V", "N"}}
    /\ call = [op |-> "ScanStruct", start |-> [t |-> "KV", v |-> RecA1],
               end |-> [t |-> "KV", v |-> RecC], maxRows |-> 0, columns |-> <<>>]

\* C2 as stated: the scan from k1 to k3 returns the three records.
C2_EndInclusive == C2_Case => rows = <<RecA1, RecAB, RecC>>

\* C2, amended: the end record is excluded; the scan from k1 to k3 returns
\* the records of k1 and k2, in this order, both columns populated.
C2_EndExclusive == C2_Case => (err = NoErr /\ rows = <<RecA1, RecAB>>)

C2_Witness == C2_Case /\ Len(rows) = 2

\* The keys in the range of the scan that ran last hold the columns V and N
\* and no other: each was written with the default column list.
WrittenByDefault ==
    \A k \in KeysOf(CellsBetween(call.start.v, call.end.v)) :
        \A col \in {"K", "V", "N"} :
            KVCell(k, col) \in DOMAIN written <=> col \in {"V", "N"}

\* C3: after records were written with the default column list, a scan
\* whose bounds enclose their keys, with no row limit and no column filter,
\* returns exactly those records, once each, in ascending key order, every
\* column holding the value written.
C3_WriteThenScan ==
    (ScanRan /\ call.columns = <<>> /\ call.maxRows = 0 /\ WrittenByDefault) =>
        LET ks == KeysOf(CellsBetween(call.start.v, call.end.v)) IN
        /\ err = NoErr
        /\ Ascending(rows)
        /\ {rows[i] : i \in 1..Len(rows)} =
              {[K |-> k, V |-> written[KVCell(k, "V")],
                N |-> written[KVCell(k, "N")]] : k \in ks}

\* The three records were written and the scan from a to z returned them.
C3_Witness ==
    /\ ScanRan /\ call.columns = <<>> /\ call.maxRows = 0 /\ WrittenByDefault
    /\ call.end.v = RecZ
    /\ rows = <<RecA1, RecAB, RecC>>

\* C4: a scan with a column filter returns one record per distinct primary
\* key of the reply, also for a key none of whose columns is in the filter;
\* every record has its key fields, the stored values of the columns in the
\* filter, and zero values in the other columns.
C4_FilterKeepsIdentity ==
    (ScanRan /\ call.columns # <<>>) =>
        /\ err = NoErr
        /\ Len(rows) = Cardinality(KeysOf(ReplyCells))
        /\ Ascending(rows)
        /\ \A i \in 1..Len(rows) :
              /\ rows[i].K \in KeysOf(ReplyCells)
              /\ rows[i] = RecordFrom(ReplyCells, rows[i].K, Range(call.columns))

\* A scan filtered on V returned a record for a key that holds only N.
C4_Witness ==
    /\ ScanRan /\ call.columns = <<"V">>
    /\ \E i \in 1..Len(rows) :
          /\ KVCell(rows[i].K, "V") \notin DOMAIN written
          /\ KVCell(rows[i].K, "N") \in ReplyCells
          /\ rows[i] = [K |-> rows[i].K, V |-> <<>>, N |-> 0]


(***************************************************************************)
(* SpecBatch: a caller issuing structured operations on one batch          *)
(* (lines 474-780) without running it.  KV and Blob are bound; Tag is      *)
(* either not bound or bound with a primary-key column it has no field     *)
(* for.                                                                    *)
(***************************************************************************)
MaxOps == 2

BatchObjects == {[t |-> "KV", v |-> RecA1], BlobObject, TagObject}
BatchColumnLists == {<<>>, <<"V">>, <<"V", "X">>}
IncColumns == {"N", "X"}
ScanFilters == {<<>>, <<"X">>}

InitBatch ==
    /\ \E o1 \in OtherColumnOrders("KV", <<"K">>),
          o2 \in OtherColumnOrders("Blob", <<"K">>),
          bindTag \in BOOLEAN :
         LET r1 == BindModelRegistry(<<>>, "kv", "KV", <<"K">>, o1)
             r2 == BindModelRegistry(r1, "blob", "Blob", <<"K">>, o2)
         IN  experimentalModels =
                IF bindTag
                THEN BindModelRegistry(r2, "tag", "Tag", <<"X">>, <<"K">>)
                ELSE r2
    /\ store = EmptyStore
    /\ written = <<>>
    /\ call = NoCall
    /\ err = NoErr
    /\ rows = <<>>
    /\ obj = TagA
    /\ ret = <<>>
    /\ InitOther

\* The batch after an operation.
BatchBecomes(b) ==
    /\ calls' = b.calls
    /\ results' = b.results

\* b.GetStruct(obj, columns...) on the caller's batch.
BatchGetStruct(o, isPtr, columns) ==
    /\ Len(results) < MaxOps
    /\ BatchBecomes(GetStruct([calls |-> calls, results |-> results],
                              experimentalModels, o.t, isPtr, o.v, columns))
    /\ call' = [op |-> "GetStruct", t |-> o.t, isPtr |-> isPtr, columns |-> columns]
    /\ UNCHANGED <<experimentalModels, store, written, err, rows, obj, ret, names,
                   descs, idgen, procs>>

\* b.PutStruct(obj, columns...) on the caller's batch.
BatchPutStruct(o, isPtr, columns) ==
    /\ Len(results) < MaxOps
    /\ BatchBecomes(PutStruct([calls |-> calls, results |-> results],
                              experimentalModels, o.t, isPtr, o.v, columns))
    /\ call' = [op |-> "PutStruct", t |-> o.t, isPtr |-> isPtr, columns |-> columns]
    /\ UNCHANGED <<experimentalModels, store, written, err, rows, obj, ret, names,
                   descs, idgen, procs>>

\* b.IncStruct(obj, value, column) on the caller's batch.
BatchIncStruct(o, isPtr, column) ==
    /\ Len(results) < MaxOps
    /\ BatchBecomes(IncStruct([calls |-> calls, results |-> results],
                              experimentalModels, o.t, isPtr, o.v, 1, column))
    /\ call' = [op |-> "IncStruct", t |-> o.t, isPtr |-> isPtr, columns |-> <<column>>]
    /\ UNCHANGED <<experimentalModels, store, written, err, rows, obj, ret, names,
                   descs, idgen, procs>>

\* b.DelStruct(obj, columns...) on the caller's batch.
BatchDelStruct(o, isPtr, columns) ==
    /\ Len(results) < MaxOps
    /\ BatchBecomes(DelStruct([calls |-> calls, results |-> results],
                              experimentalModels, o.t, isPtr, o.v, columns))
    /\ call' = [op |-> "DelStruct", t |-> o.t, isPtr |-> isPtr, columns |-> columns]
    /\ UNCHANGED <<experimentalModels, store, written, err, rows, obj, ret, names,
                   descs, idgen, procs>>

\* The Go type of a record of type t, or of a pointer to one.
GoType(isPtr, t) == IF isPtr THEN <<"*", t>> ELSE <<t>>

\* reflect.Indirect(reflect.ValueOf(x)).Type() for x of Go type ty (lines
\* 647, 653): the name of the record type x is or points to.
IndirectType(ty) == IF Head(ty) = "*" THEN ty[2] ELSE ty[1]

\* b.ScanStruct(dest, start, end, 0, columns...) on the caller's batch, dest
\* a pointer to a slice of modelT or no such pointer, start and end records
\* or pointers to records.
BatchScanStruct(destOk, modelT, start, startPtr, end, endPtr, columns) ==
    /\ Len(results) < MaxOps
    /\ BatchBecomes(ScanStruct([calls |-> calls, results |-> results],
                               experimentalModels, destOk, modelT,
                               IndirectType(GoType(startPtr, start.t)), start.v,
                               IndirectType(GoType(endPtr, end.t)), end.v,
                               0, columns))
    /\ call' = [op |-> "ScanStruct", t |-> modelT, destOk |-> destOk,
                startT |-> start.t, endT |-> end.t, columns |-> columns,
                startPtr |-> startPtr, endPtr |-> endPtr]
    /\ UNCHANGED <<experimentalModels, store, written, err, rows, obj, ret, names,
                   descs, idgen, procs>>

NextBatch ==
    \/ \E o \in BatchObjects, isPtr \in BOOLEAN, columns \in BatchColumnLists :
         BatchGetStruct(o, isPtr, columns)
    \/ \E o \in BatchObjects, isPtr \in BOOLEAN, columns \in BatchColumnLists :
         BatchPutStruct(o, isPtr, columns)
    \/ \E o \in BatchObjects, isPtr \in BOOLEAN, column \in IncColumns :
         BatchIncStruct(o, isPtr, column)
    \/ \E o \in BatchObjects, isPtr \in BOOLEAN, columns \in BatchColumnLists :
         BatchDelStruct(o, isPtr, columns)
    \/ \E destOk \in BOOLEAN, modelT \in {"KV", "Tag"},
          end \in {[t |-> "KV", v |-> RecC], BlobObject},
          startPtr \in BOOLEAN, endPtr \in BOOLEAN, columns \in ScanFilters :
         BatchScanStruct(destOk, modelT, [t |-> "KV", v |-> RecA1], startPtr,
                         end, endPtr, columns)

SpecBatch == InitBatch /\ [][NextBatch]_vars

\* The columns of a record type that an operation with the column list of
\* c touches: the named ones, or all that are no primary-key column.
TouchedColumns(c) ==
    IF c.columns # <<>> THEN Range(c.columns)
    ELSE DOMAIN getDBFields(c.t) \ Range(experimentalModels[c.t].primaryKey)

\* The operation c fails validation: no binding, a non-pointer where a
\* pointer is required, a primary-key or named column the type has no field
\* for, a field value that cannot be marshaled, a dest that is no pointer to
\* a slice or a scan bound of another type.
FailsValidation(c) ==
    \/ c.t \notin DOMAIN experimentalModels
    \/ c.op \in {"GetStruct", "IncStruct"} /\ ~c.isPtr
    \/ Range(experimentalModels[c.t].primaryKey) \ DOMAIN getDBFields(c.t) # {}
    \/ c.op # "ScanStruct" /\ TouchedColumns(c) \ DOMAIN getDBFields(c.t) # {}
    \/ c.op = "PutStruct" /\ \E col \in TouchedColumns(c) : getDBFields(c.t)[col] = "map"
    \/ c.op = "ScanStruct" /\ (~c.destOk \/ c.startT # c.t \/ c.endT # c.t)

\* The primitive call a structured operation issues per column.
PrimitiveOf(op) ==
    CASE op = "GetStruct" -> "Get" [] op = "PutStruct" -> "Put"
      [] op = "IncStruct" -> "Inc" [] op = "DelStruct" -> "Del"
      [] op = "ScanStruct" -> "Scan"

\* The number of calls a valid operation issues.
CallCount(c) ==
    IF c.op = "ScanStruct" THEN 1
    ELSE IF c.columns # <<>> THEN Len(c.columns)
    ELSE Cardinality(TouchedColumns(c))

\* The outcome of operation c that took the batch from calls before to
\* calls after and recorded result r.
AllOrNone(c, before, after, r) ==
    IF FailsValidation(c)
    THEN after = before /\ r.err # NoErr /\ r.calls = 0
    ELSE /\ r.err = NoErr
         /\ Len(after) = Len(before) + CallCount(c)
         /\ SubSeq(after, 1, Len(before)) = before
         /\ \A i \in Len(before) + 1..Len(after) : after[i].op = PrimitiveOf(c.op)

\* C5: every structured operation on a batch that fails validation leaves
\* the batch's calls as they were and records an error result; every one
\* that passes validation appends all of its calls, one per column (one for
\* IncStruct and ScanStruct), and records no error.
C5_AllOrNone ==
    [][results' # results =>
         /\ Len(results') = Len(results) + 1
         /\ AllOrNone(call', calls, calls', results'[Len(results')])]_vars

\* C5: a PutStruct whose second column is unknown failed on a batch that
\* held calls: the batch still holds those calls and no call of the failed
\* operation.
C5_Witness ==
    /\ call.op = "PutStruct" /\ call.t = "KV" /\ call.columns = <<"V", "X">>
    /\ Len(results) = 2
    /\ results[1].err = NoErr /\ results[1].calls = Len(calls) /\ Len(calls) > 0
    /\ results[2].err = "unable to find field"


\* The error an operation records for a type that is not bound: the check
\* that comes before the lookup of the model, if it fails, decides.
UnboundErr(c) ==
    IF c.op \in {"GetStruct", "IncStruct"} /\ ~c.isPtr THEN "pointer type required"
    ELSE IF c.op = "ScanStruct" /\ ~c.destOk THEN "dest must be a pointer to a slice"
    ELSE "unable to find model"

\* What holds of operation c that took the batch from calls before to calls
\* after and recorded result r, as to pointers: GetStruct and IncStruct of a
\* record passed by value fail and append no call, bound or not; PutStruct,
\* DelStruct and the bounds of ScanStruct may be values or pointers.
PointerRule(c, before, after, r) ==
    /\ (c.op \in {"GetStruct", "IncStruct"} /\ ~c.isPtr) =>
          r.err = "pointer type required" /\ after = before
    /\ c.op \in {"PutStruct", "DelStruct", "ScanStruct"} =>
          r.err # "pointer type required"
    /\ (c.op = "ScanStruct" /\ ~FailsValidation(c)) => r.err = NoErr

\* C18: GetStruct and IncStruct of a record passed by value record "pointer
\* type required" and append no call; PutStruct, DelStruct and the bounds of
\* ScanStruct may be values or pointers; every operation on a type that is
\* not bound records "unable to find model".
C18_UnboundIsNoModel ==
    [][results' # results =>
         /\ PointerRule(call', calls, calls', results'[Len(results')])
         /\ call'.t \notin DOMAIN experimentalModels =>
               results'[Len(results')].err = "unable to find model"]_vars

\* C18: as above, but an operation on a type that is not bound records
\* "unable to find model" only when the check before the lookup passes:
\* GetStruct and IncStruct of a record passed by value record "pointer type
\* required" also for an unbound type, and ScanStruct with a dest that is
\* no pointer to a slice records that.
C18_PointerCheckedFirst ==
    [][results' # results =>
         /\ PointerRule(call', calls, calls', results'[Len(results')])
         /\ call'.t \notin DOMAIN experimentalModels =>
               results'[Len(results')].err = UnboundErr(call')]_vars

\* C18: GetStruct of a record of an unbound type passed by value recorded
\* "pointer type required" on a batch that held calls, and appended none.
C18_Witness ==
    /\ call.op = "GetStruct" /\ ~call.isPtr
    /\ call.t \notin DOMAIN experimentalModels
    /\ Len(results) = 2
    /\ results[2].err = "pointer type required"
    /\ results[1].err = NoErr
    /\ Len(calls) = results[1].calls /\ calls # <<>>

(***************************************************************************)
(* SpecBind: a caller binding record types to tables on a new DB           *)
(* (lines 342-373).                                                        *)
(***************************************************************************)
BindNames == {"kv", "blob"}
BindTypes == {"KV", "Tag"}
BindKeys == {<<"K">>, <<"X">>, <<"K", "V">>}

InitBind ==
    /\ experimentalModels = <<>>
    /\ store = EmptyStore
    /\ written = <<>>
    /\ call = NoCall
    /\ err = NoErr
    /\ rows = <<>>
    /\ obj = TagA
    /\ ret = <<>>
    /\ InitOther

\* The caller's registry and err after a BindModel.
BindReturn(r) ==
    /\ experimentalModels' = r.reg
    /\ err' = r.err

\* db.BindModel(name, obj, primaryKey...), obj a t or a pointer to one.
DBBindModel(name, t, isPtr, primaryKey) ==
    /\ \E order \in OtherColumnOrders(t, primaryKey) :
         BindReturn(BindModel(experimentalModels, name, t, primaryKey, order))
    /\ call' = [op |-> "BindModel", name |-> name, t |-> t, isPtr |-> isPtr,
                primaryKey |-> primaryKey]
    /\ UNCHANGED <<store, written, rows, obj, ret, calls, results, names, descs,
                   idgen, procs>>

NextBind ==
    \E name \in BindNames, t \in BindTypes, isPtr \in BOOLEAN,
       primaryKey \in BindKeys :
         DBBindModel(name, t, isPtr, primaryKey)

SpecBind == InitBind /\ [][NextBind]_vars

\* C8: a BindModel for a type that is bound, under whatever table name and
\* whether given by value or by pointer, returns "already defined" and
\* leaves the registry as it was.
C8_RebindRejected ==
    [][call'.t \in DOMAIN experimentalModels =>
         /\ err' = "already defined"
         /\ experimentalModels' = experimentalModels]_vars

\* C8: a BindModel by pointer under another table name and primary key was
\* rejected for a type that is bound.
C8_Witness ==
    /\ call.op = "BindModel" /\ call.isPtr
    /\ err = "already defined"
    /\ call.t \in DOMAIN experimentalModels
    /\ experimentalModels[call.t].name # call.name
    /\ experimentalModels[call.t].primaryKey # call.primaryKey

\* C9 as stated: every binding in the registry has all its primary-key
\* columns in its field map.
C9_KeyColumnsAreFields ==
    \A t \in DOMAIN experimentalModels :
        Range(experimentalModels[t].primaryKey) \subseteq DOMAIN experimentalModels[t].fields

\* The outcome of b.PutStruct on a new batch for the zero record of t.
PutOfZero(reg, t) == PutStruct(NewBatch, reg, t, FALSE, ZeroRecord(t), <<>>)

\* C9, amended: a BindModel for a type that is not bound succeeds and
\* registers the primary key as given, whether its columns are fields of
\* the type or not; when one is not, it is a PutStruct of a record of the
\* type that records "unable to find field", and it issues no call.
C9_KeyCheckedOnUse ==
    [][call'.t \notin DOMAIN experimentalModels =>
         /\ err' = NoErr
         /\ call'.t \in DOMAIN experimentalModels'
         /\ experimentalModels'[call'.t].primaryKey = call'.primaryKey
         /\ (Range(call'.primaryKey) \ DOMAIN getDBFields(call'.t) # {} =>
               /\ PutOfZero(experimentalModels', call'.t).calls = <<>>
               /\ PutOfZero(experimentalModels', call'.t).results =
                     <<[calls |-> 0, err |-> "unable to find field"]>>)]_vars

\* C9: a BindModel with a primary-key column the type has no field for
\* returned no error and is in the registry.
C9_Witness ==
    /\ call.op = "BindModel" /\ call.primaryKey = <<"X">>
    /\ err = NoErr
    /\ call.t \in DOMAIN experimentalModels
    /\ experimentalModels[call.t].primaryKey = <<"X">>

\* C10 as stated: no two record types in the registry are bound to the same
\* table name.
C10_TableNameUnique ==
    \A t1, t2 \in DOMAIN experimentalModels :
        t1 # t2 => experimentalModels[t1].name # experimentalModels[t2].name

\* C10, amended: BindModel fails exactly when the record type is bound; a
\* BindModel for a type that is not bound succeeds under any table name,
\* one that another type is bound to included, and leaves the other
\* bindings as they were.
C10_OnlyTypeUnique ==
    [][/\ (err' = NoErr) <=> (call'.t \notin DOMAIN experimentalModels)
       /\ call'.t \notin DOMAIN experimentalModels =>
            /\ experimentalModels'[call'.t].name = call'.name
            /\ \A x \in DOMAIN experimentalModels :
                 experimentalModels'[x] = experimentalModels[x]]_vars

\* C10: a BindModel under a table name that another type is bound to
\* returned no error, and both types are bound to that name.
C10_Witness ==
    /\ call.op = "BindModel" /\ err = NoErr
    /\ \E x \in DOMAIN experimentalModels :
         /\ x # call.t
         /\ call.t \in DOMAIN experimentalModels
         /\ experimentalModels[x].name = call.name
         /\ experimentalModels[call.t].name = call.name


(***************************************************************************)
(* The table metadata operations (lines 203-298).  The metadata is the     *)
(* record kv of the name-metadata keys (table name -> descriptor key) and  *)
(* the descriptor keys (descriptor key -> descriptor); a descriptor key is *)
(* given by the table ID it is made from.  Each call is a process that     *)
(* steps from one request to the store to the next; a transaction takes    *)
(* effect at once.                                                         *)
(***************************************************************************)
NumProcs == 3

Procs == 1..NumProcs
TableNames == {"a", "b"}
SchemaNames == TableNames \cup {""}
OldNames == {"a", "B"}
NewNames == {"A", "b", ""}

\* strings.ToLower(s).
ToLower(s) == CASE s = "A" -> "a" [] s = "B" -> "b" [] OTHER -> s

\* proto.ValidateTableDesc(desc): a table has a name.
ValidateTableDesc(desc) == IF desc.Name = "" THEN "empty table name" ELSE NoErr

\* DescID with the ID kept in one bit.
DescID_OneBit(v) == (v - 1) % 2

\* desc.ID = uint32(ir.ValueInt() - 1) (line 226); the generator counts the
\* NumProcs calls, so the conversion to 32 bits keeps the value.
DescID(v) == v - 1

Idle == [pc |-> "idle", op |-> "none", name |-> "", newName |-> "", id |-> 0,
         err |-> NoErr]

\* keys.MakeNameMetadataKey(0, name) and keys.MakeDescMetadataKey(id): a
\* key is the part of the metadata it is in and the name or ID it is made
\* from.
MakeNameMetadataKey(name) == [in |-> "names", of |-> name]
MakeDescMetadataKey(id) == [in |-> "descs", of |-> id]

\* One call of a batch applied to the metadata kv.
ApplyMeta(kv, c) ==
    IF c.op = "Del"
    THEN [kv EXCEPT ![c.key.in] =
            [k \in DOMAIN kv[c.key.in] \ {c.key.of} |-> kv[c.key.in][k]]]
    ELSE [kv EXCEPT ![c.key.in] =
            [k \in DOMAIN kv[c.key.in] \cup {c.key.of} |->
                IF k = c.key.of THEN c.value ELSE kv[c.key.in][k]]]

\* txn.Commit(b) from call i on: [err, kv].  A CPut that expects no value
\* fails when its key exists, and a failed transaction writes nothing: the
\* metadata is kv0, what it was when the transaction began.
RECURSIVE Commit(_, _, _, _)
Commit(kv0, kv, b, i) ==
    IF i > Len(b) THEN [err |-> NoErr, kv |-> kv]
    ELSE IF b[i].op = "CPut" /\ b[i].key.of \in DOMAIN kv[b[i].key.in]
    THEN [err |-> "unexpected value", kv |-> kv0]
    ELSE Commit(kv0, ApplyMeta(kv, b[i]), b, i + 1)

\* The batch of CreateTable with a Put in place of the CPut.
CreateBatch_Put(desc) ==
    <<[op |-> "Put", key |-> MakeNameMetadataKey(desc.Name), value |-> desc.ID],
      [op |-> "Put", key |-> MakeDescMetadataKey(desc.ID), value |-> desc]>>

\* The batch of CreateTable (lines 232-235).
CreateBatch(desc) ==
    <<[op |-> "CPut", key |-> MakeNameMetadataKey(desc.Name), value |-> desc.ID],
      [op |-> "Put", key |-> MakeDescMetadataKey(desc.ID), value |-> desc]>>

\* The batch of RenameTable with a Put in place of the CPut.
RenameBatch_Put(oldName, descKey, desc) ==
    <<[op |-> "Put", key |-> MakeDescMetadataKey(descKey), value |-> desc],
      [op |-> "Put", key |-> MakeNameMetadataKey(desc.Name), value |-> descKey],
      [op |-> "Del", key |-> MakeNameMetadataKey(oldName)]>>

\* The batch of RenameTable without the Del of the old name key.
RenameBatch_KeepOld(oldName, descKey, desc) ==
    <<[op |-> "Put", key |-> MakeDescMetadataKey(descKey), value |-> desc],
      [op |-> "CPut", key |-> MakeNameMetadataKey(desc.Name), value |-> descKey]>>

\* The batch of RenameTable (lines 289-294).
RenameBatch(oldName, descKey, desc) ==
    <<[op |-> "Put", key |-> MakeDescMetadataKey(descKey), value |-> desc],
      [op |-> "CPut", key |-> MakeNameMetadataKey(desc.Name), value |-> descKey],
      [op |-> "Del", key |-> MakeNameMetadataKey(oldName)]>>

\* txn.GetProto(descKey, &desc): a key that does not exist leaves desc the
\* zero descriptor.
GetProto(ds, descKey) ==
    IF descKey \in DOMAIN ds THEN ds[descKey] ELSE [Name |-> "", ID |-> 0]

\* The closure of RenameTable run on the metadata kv (lines 272-296):
\* [err, kv].
RenameTxn(kv, oldName, newName) ==
    IF ToLower(oldName) \notin DOMAIN kv.names
    THEN [err |-> "unable to find table", kv |-> kv]
    ELSE LET descKey == kv.names[ToLower(oldName)]
             desc == [GetProto(kv.descs, descKey) EXCEPT !.Name = ToLower(newName)]
         IN  IF ValidateTableDesc(desc) # NoErr
             THEN [err |-> ValidateTableDesc(desc), kv |-> kv]
             ELSE Commit(kv, kv, RenameBatch(ToLower(oldName), descKey, desc), 1)

InitMeta ==
    /\ names = <<>>
    /\ descs = <<>>
    /\ idgen = 0
    /\ procs = [p \in Procs |-> Idle]
    /\ experimentalModels = <<>>
    /\ store = EmptyStore
    /\ written = <<>>
    /\ call = NoCall
    /\ err = NoErr
    /\ rows = <<>>
    /\ obj = TagA
    /\ ret = <<>>
    /\ calls = <<>>
    /\ results = <<>>

\* CreateTable up to the reply of db.Get(nameKey) (lines 206-220), for a
\* schema with the given name.
CreateTableGet(p, name) ==
    /\ procs[p].pc = "idle"
    /\ procs' = [procs EXCEPT ![p] =
         IF ValidateTableDesc([Name |-> name, ID |-> 0]) # NoErr
         THEN [Idle EXCEPT !.pc = "done", !.op = "CreateTable", !.name = name,
                           !.err = ValidateTableDesc([Name |-> name, ID |-> 0])]
         ELSE IF name \in DOMAIN names
         THEN [Idle EXCEPT !.pc = "done", !.op = "CreateTable", !.name = name,
                           !.err = "already exists"]
         ELSE [Idle EXCEPT !.pc = "inc", !.op = "CreateTable", !.name = name]]
    /\ UNCHANGED <<names, descs, idgen, clientVars>>

\* CreateTable: db.Inc(keys.DescIDGenerator, 1) and line 226.
CreateTableInc(p) ==
    /\ procs[p].pc = "inc"
    /\ idgen' = idgen + 1
    /\ procs' = [procs EXCEPT ![p].pc = "txn", ![p].id = DescID(idgen + 1)]
    /\ UNCHANGED <<names, descs, clientVars>>

\* The metadata and the error of process p after a transaction.
TxnReturn(p, r) ==
    /\ names' = r.kv.names
    /\ descs' = r.kv.descs
    /\ procs' = [procs EXCEPT ![p].pc = "done", ![p].err = r.err]

\* CreateTable: the transaction (lines 231-237).
CreateTableTxn(p) ==
    /\ procs[p].pc = "txn"
    /\ TxnReturn(p, Commit([names |-> names, descs |-> descs],
                           [names |-> names, descs |-> descs],
                           CreateBatch([Name |-> procs[p].name, ID |-> procs[p].id]),
                           1))
    /\ UNCHANGED <<idgen, clientVars>>

\* The metadata and the error of the caller after a RenameTable.
RenameReturn(r) ==
    /\ names' = r.kv.names
    /\ descs' = r.kv.descs
    /\ err' = r.err

\* db.RenameTable(oldName, newName) (lines 262-298): its transaction takes
\* effect at once, so the call is one step of its caller.
RenameTable(oldName, newName) ==
    /\ RenameReturn(RenameTxn([names |-> names, descs |-> descs], oldName, newName))
    /\ call' = [op |-> "RenameTable", oldName |-> oldName, newName |-> newName]
    /\ UNCHANGED <<idgen, procs, experimentalModels, store, rows, obj, ret, calls,
                   results, written>>

NextCreate ==
    \E p \in Procs :
        \/ \E name \in SchemaNames : CreateTableGet(p, name)
        \/ CreateTableInc(p)
        \/ CreateTableTxn(p)

NextMeta ==
    \/ \E p \in Procs, name \in SchemaNames : CreateTableGet(p, name)
    \/ \E p \in Procs : CreateTableInc(p)
    \/ \E p \in Procs : CreateTableTxn(p)
    \/ \E oldName \in OldNames, newName \in NewNames : RenameTable(oldName, newName)

\* SpecMeta: processes that each call CreateTable once, and a caller of
\* RenameTable.
SpecMeta == InitMeta /\ [][NextMeta]_vars

\* SpecCreate: processes that each call CreateTable once.
SpecCreate == InitMeta /\ [][NextCreate]_vars

Renamed(o, n) ==
    /\ DOMAIN names' = (DOMAIN names \ {o}) \cup {n}
    /\ names'[n] = names[o]
    /\ \A x \in DOMAIN names \ {o} : names'[x] = names[x]
    /\ DOMAIN descs' = DOMAIN descs
    /\ descs'[names[o]] = [descs[names[o]] EXCEPT !.Name = n]
    /\ \A d \in DOMAIN descs \ {names[o]} : descs'[d] = descs[d]

\* C22: a RenameTable whose old name does not exist or whose new name
\* exists, the table's own current name included, returns an error and
\* leaves the name-metadata keys and the descriptors as they were, as does
\* every RenameTable that returns an error; one that returns no error
\* leaves the old name unresolved, the new name on the same descriptor key
\* and the lower-cased new name in the descriptor.
C22_RenameAtomic ==
    [][(procs' = procs /\ idgen' = idgen) =>
         LET o == ToLower(call'.oldName)
             n == ToLower(call'.newName)
         IN  /\ (o \notin DOMAIN names \/ n \in DOMAIN names) => err' # NoErr
             /\ err' # NoErr => names' = names /\ descs' = descs
             /\ err' = NoErr => Renamed(o, n)
             /\ (o \in DOMAIN names /\ n \notin DOMAIN names /\ n # "") =>
                   err' = NoErr]_vars

\* C22: RenameTable of table "a" to "A", its own name, returned the error
\* of the conditional put; the table is still there under "a".
C22_Witness ==
    /\ call.op = "RenameTable" /\ call.oldName = "a" /\ call.newName = "A"
    /\ err = "unexpected value"
    /\ "a" \in DOMAIN names /\ descs[names["a"]].Name = "a"

\* A step of process p that is the reply of db.Get or the transaction of a
\* CreateTable.
CreateTableStep(p) ==
    /\ procs'[p] # procs[p]
    /\ procs'[p].op = "CreateTable"
    /\ procs[p].pc \in {"idle", "txn"}

\* C7: a CreateTable that finds the name-metadata key of its name, at its
\* Get or in its transaction, returns an error and leaves the names and
\* the descriptors as they are; and of the CreateTable calls for one name
\* at most one returns no error.
C7_CreateFailsIfNameInUse ==
    /\ [][\A p \in Procs :
            (CreateTableStep(p) /\ procs'[p].name \in DOMAIN names) =>
                /\ procs'[p].pc = "done" /\ procs'[p].err # NoErr
                /\ names' = names /\ descs' = descs]_vars
    /\ [](\A p, q \in Procs :
            (/\ p # q
             /\ procs[p].pc = "done" /\ procs[q].pc = "done"
             /\ procs[p].name = procs[q].name)
            => (procs[p].err # NoErr \/ procs[q].err # NoErr))

\* C7: two CreateTable calls for one name both found the name free and
\* both took a table ID; one created the table and the other's transaction
\* failed.
C7_Witness ==
    \E p, q \in Procs :
        /\ procs[p].pc = "done" /\ procs[p].err = NoErr
        /\ procs[q].pc = "done" /\ procs[q].err = "unexpected value"
        /\ procs[p].name = procs[q].name
        /\ names[procs[p].name] = procs[p].id


\* The CreateTable call of process p has taken a table ID: it is in its
\* transaction or has returned from it.
Allocated(p) ==
    \/ procs[p].pc = "txn"
    \/ procs[p].pc = "done" /\ procs[p].err \notin {"empty table name", "already exists"}

KeyStrings == {<<>>, <<0>>, <<97>>, <<97, 0>>}
KeyInts == {-256, -1, 0, 1, 256}

RowRecords ==
    {[S |-> s, I |-> i, U |-> ub[1], B |-> ub[2]] :
        s \in KeyStrings, i \in KeyInts,
        ub \in {<<Wide(0), FALSE>>, <<Wide(255), TRUE>>}}
BinRecords == {[Y |-> y] : y \in {NilSlice} \cup {Slice(d) : d \in KeyStrings}}

RecordsOf(t) == IF t = "Row" THEN RowRecords ELSE BinRecords

RowKeys == {<<"S">>, <<"I">>, <<"U">>, <<"B">>, <<"S", "I">>, <<"I", "S">>,
            <<"B", "S">>}
BinKeys == {<<"Y">>, <<>>}

\* The type that is bound in a registry with one binding.
BoundType == CHOOSE t \in DOMAIN experimentalModels : TRUE

InitKey ==
    /\ \/ \E primaryKey \in RowKeys : \E order \in OtherColumnOrders("Row", primaryKey) :
            experimentalModels =
                BindModelRegistry(<<>>, "row", "Row", primaryKey, order)
       \/ \E primaryKey \in BinKeys : \E order \in OtherColumnOrders("Bin", primaryKey) :
            experimentalModels =
                BindModelRegistry(<<>>, "bin", "Bin", primaryKey, order)
    /\ store = EmptyStore
    /\ written = <<>>
    /\ call = NoCall
    /\ err = NoErr
    /\ rows = <<>>
    /\ obj = TagA
    /\ ret = <<>>
    /\ InitOther

\* m.encodePrimaryKey of two records a and b of the bound type.
EncodePrimaryKeys(a, b) ==
    /\ call = NoCall
    /\ ret' = <<encodePrimaryKey(experimentalModels[BoundType], a),
                encodePrimaryKey(experimentalModels[BoundType], b)>>
    /\ call' = [op |-> "encodePrimaryKey", a |-> a, b |-> b]
    /\ UNCHANGED <<experimentalModels, store, written, err, rows, obj, calls,
                   results, names, descs, idgen, procs>>

\* m.decodePrimaryKey(key, dest) for the column key of column bytes col of
\* record r, dest a record that holds d.
DecodeColumnKey(r, col, d) ==
    /\ call = NoCall
    /\ ret' = decodePrimaryKey(experimentalModels[BoundType],
                  encodePrimaryKey(experimentalModels[BoundType], r).key \o col, d)
    /\ call' = [op |-> "decodePrimaryKey", r |-> r, col |-> col, d |-> d]
    /\ UNCHANGED <<experimentalModels, store, written, err, rows, obj, calls,
                   results, names, descs, idgen, procs>>

\* The bytes of the column names of the bound type, and no bytes for the
\* bare primary key.
ColumnBytes ==
    {StrBytes(c) : c \in DOMAIN getDBFields(BoundType)} \cup {<<>>}

NextKey ==
    \/ \E a, b \in RecordsOf(BoundType) : EncodePrimaryKeys(a, b)
    \/ \E r \in RecordsOf(BoundType), col \in ColumnBytes,
          d \in {ZeroRecord(BoundType)} \cup
                {x \in RecordsOf(BoundType) : x = [c \in DOMAIN x |->
                    CASE c = "S" -> <<97, 0>> [] c = "Y" -> Slice(<<97, 0>>)
                      [] c = "I" -> 256 [] c = "U" -> Wide(255)
                      [] c = "B" -> TRUE]} :
         DecodeColumnKey(r, col, d)

SpecKey == InitKey /\ [][NextKey]_vars

\* The order of two field values of a kind.
ValueLess(kind, x, y) ==
    CASE kind = "string" -> BytesLess(x, y)
      [] kind = "bytes"  -> BytesLess(x.data, y.data)
      [] kind = "int"    -> x < y
      [] kind = "uint"   -> Narrow(x) < Narrow(y)
      [] kind = "bool"   -> ~x /\ y

\* Two field values of a kind are the same value: a nil []byte and an empty
\* one are the same byte sequence.
SameValue(kind, x, y) == IF kind = "bytes" THEN x.data = y.data ELSE x = y

\* Two records have the same primary-key tuple.
SameKey(m, a, b) ==
    \A i \in 1..Len(m.primaryKey) :
        SameValue(m.fields[m.primaryKey[i]], a[m.primaryKey[i]], b[m.primaryKey[i]])

\* The order of the primary-key tuples of a and b: field by field in the
\* bound order.
TupleLess(m, a, b) ==
    \E i \in 1..Len(m.primaryKey) :
        /\ \A j \in 1..(i - 1) : a[m.primaryKey[j]] = b[m.primaryKey[j]]
        /\ ValueLess(m.fields[m.primaryKey[i]], a[m.primaryKey[i]], b[m.primaryKey[i]])

\* The primary keys of two records were encoded.
KeysEncoded ==
    call.op = "encodePrimaryKey" /\ ret[1].err = NoErr /\ ret[2].err = NoErr

FieldKinds == {"bool", "int", "uint", "float", "string", "bytes", "map"}

\* The field values of a kind.  An unsigned value is k * 2^63 + n: 2^63,
\* 2^63 + 5 and 2^64 - 1 are above the largest signed value.
FieldValues(kind) ==
    CASE kind = "bool"   -> BOOLEAN
      [] kind = "int"    -> KeyInts
      [] kind = "uint"   -> {Wide(0), Wide(255), [k |-> 1, n |-> 0],
                             [k |-> 1, n |-> 5], [k |-> 2, n |-> -1]}
      [] kind = "float"  -> [neg : BOOLEAN, rest : {0, 5}]
      [] kind = "string" -> KeyStrings
      [] kind = "bytes"  -> {NilSlice} \cup {Slice(d) : d \in KeyStrings}
      [] kind = "map"    -> {"nilmap"}

\* The values unmarshalTableValue is given: an absent one and the marshaled
\* field values.
MarshaledValues ==
    {NilValue} \cup
    UNION {{marshalTableValue(kind, v).value : v \in FieldValues(kind)} :
              kind \in FieldKinds}

InitMarshal ==
    /\ experimentalModels = <<>>
    /\ store = EmptyStore
    /\ written = <<>>
    /\ call = NoCall
    /\ err = NoErr
    /\ rows = <<>>
    /\ obj = TagA
    /\ ret = <<>>
    /\ InitOther

\* marshalTableValue(v), and on success unmarshalTableValue of its result
\* into a field of the same kind that holds old.
MarshalRoundTrip(kind, v, old, marshaled) ==
    /\ call = NoCall
    /\ ret' = [m |-> marshaled,
               u |-> IF marshaled.err = NoErr
                     THEN unmarshalTableValue(marshaled.value, kind, old)
                     ELSE [err |-> marshaled.err, val |-> old]]
    /\ call' = [op |-> "marshalTableValue", kind |-> kind, v |-> v, old |-> old]
    /\ UNCHANGED <<experimentalModels, store, written, err, rows, obj, calls,
                   results, names, descs, idgen, procs>>

\* unmarshalTableValue(src, dest), dest a field of the given kind that holds
\* old.
UnmarshalInto(src, kind, old) ==
    /\ call = NoCall
    /\ kind = "int" => GetInteger(src).k = 0
    /\ ret' = [u |-> unmarshalTableValue(src, kind, old)]
    /\ call' = [op |-> "unmarshalTableValue", src |-> src, kind |-> kind,
                old |-> old]
    /\ UNCHANGED <<experimentalModels, store, written, err, rows, obj, calls,
                   results, names, descs, idgen, procs>>

NextMarshal ==
    \/ \E kind \in FieldKinds : \E v, old \in FieldValues(kind) :
          MarshalRoundTrip(kind, v, old, marshalTableValue(kind, v))
    \/ \E src \in MarshaledValues, kind \in FieldKinds :
          \E old \in FieldValues(kind) : UnmarshalInto(src, kind, old)

SpecMarshal == InitMarshal /\ [][NextMarshal]_vars

\* A field value of one of the kinds the marshaler stores was marshaled.
Marshaled == call.op = "marshalTableValue" /\ call.kind # "map"

\* The marshaled value holds the variant of its kind: the integer one for
\* a number or a boolean, the byte-sequence one for a string or bytes.
VariantOf(kind, value) ==
    IF kind \in {"string", "bytes"}
    THEN value.hasBytes /\ ~value.hasInt
    ELSE value.hasInt /\ ~value.hasBytes

\* An unsigned value k * 2^63 + n is above the largest signed one, 2^63 - 1.
AboveMaxInt64(u) == u.k = 2 \/ (u.k = 1 /\ u.n >= 0)

\* C14: marshalTableValue of every boolean, signed, unsigned, float, string
\* and byte-sequence field value succeeds with exactly one of the integer
\* and byte-sequence variants set, and unmarshalTableValue of the result
\* into a field of the same type restores the value.
C14_ExactlyOneVariant ==
    Marshaled =>
        /\ ret.m.err = NoErr
        /\ ret.m.value.hasInt # ret.m.value.hasBytes
        /\ ret.u.err = NoErr
        /\ ret.u.val = call.v

\* C14: as above, but a nil byte sequence is marshaled to a value with
\* neither variant set; every other value has the variant of its kind (an
\* unsigned value above the largest signed one as the signed value 2^64
\* below it), and the round trip restores every value, the nil byte
\* sequence as nil.
C14_MarshalRoundTrip ==
    Marshaled =>
        /\ ret.m.err = NoErr
        /\ ~ret.m.value.isNil
        /\ IF call.kind = "bytes" /\ call.v.isNil
           THEN ~ret.m.value.hasInt /\ ~ret.m.value.hasBytes
           ELSE VariantOf(call.kind, ret.m.value)
        /\ call.kind = "uint" =>
              ret.m.value.Integer =
                  IF AboveMaxInt64(call.v)
                  THEN [k |-> call.v.k - 2, n |-> call.v.n]
                  ELSE call.v
        /\ ret.u.err = NoErr
        /\ ret.u.val = call.v

\* C14: a nil byte sequence was marshaled into a field that held bytes, and
\* read back as nil.
C14_Witness ==
    /\ Marshaled
    /\ call.kind = "bytes" /\ call.v = NilSlice /\ call.old = Slice(<<97>>)
    /\ ~ret.m.value.hasBytes
    /\ ret.u.val = NilSlice

\* A value was unmarshaled into a field whose type does not take the variant
\* the value holds.
TypeMismatch ==
    /\ call.op = "unmarshalTableValue"
    /\ ~call.src.isNil
    /\ \/ call.src.hasBytes /\ call.kind \in {"bool", "int", "uint", "float"}
       \/ call.src.hasInt /\ call.kind \in {"string", "bytes"}

\* C19: unmarshalTableValue of a value holding the byte-sequence variant
\* into a boolean, integer, unsigned or float field, or of a value holding
\* the integer variant into a string or byte-sequence field, returns an
\* "unable to unmarshal" error and leaves the field as it was.
C19_TypeMismatch ==
    TypeMismatch =>
        ret.u.err = "unable to unmarshal" /\ ret.u.val = call.old

\* C19: the integer value 1 was unmarshaled into a string field that held
\* "a".
C19_Witness ==
    /\ TypeMismatch
    /\ call.kind = "string" /\ call.old = <<97>> /\ call.src.Integer = Wide(1)
    /\ ret.u.err # NoErr /\ ret.u.val = <<97>>

(***************************************************************************)
(* Deleting a row, under Spec.                                             *)
(***************************************************************************)
\* db.DelStruct(obj) with no column returned without error.
RowDeleted == call.op = "DelStruct" /\ call.columns = <<>> /\ err = NoErr

\* The keys of the store that have the primary key of record v of type t as
\* prefix.
RowKeysOf(t, v) ==
    {k \in DOMAIN store :
        HasPrefix(k, encodePrimaryKey(experimentalModels[t], v).key)}

\* C16: after DelStruct with an empty column list the store holds no column
\* key whose prefix is the primary key of the record, whatever PutStruct
\* calls wrote the row.
C16_DelDeletesRow ==
    RowDeleted => RowKeysOf(call.o.t, call.o.v) = {}

\* C16: after PutStruct(obj, "K", "V") and DelStruct(obj), the store holds
\* the column key of the primary-key column K of the record and no other key
\* of its row.
C16_Witness ==
    /\ RowDeleted
    /\ call.o.v = RecA1
    /\ KVCell(RecA1.K, "K") \in DOMAIN written
    /\ RowKeysOf("KV", RecA1) =
          {encodeColumnKey(encodePrimaryKey(experimentalModels["KV"], RecA1).key,
                           "K")}

(***************************************************************************)
(* SpecGet: one caller writing, deleting and reading the columns of        *)
(* records, each operation a batch of one structured operation that is run *)
(* at once.  obj is the record the caller's pointer refers to.             *)
(***************************************************************************)
GetColumnLists == {<<>>, <<"V">>, <<"N", "V">>, <<"X">>}

\* Get(key): the reply holds the value stored under key, none when the key
\* is absent.
StoreGet(st, key) ==
    [Value |-> IF key \in DOMAIN st THEN st[key] ELSE NilValue]

\* The Post of a Get call of GetStruct with the field left as it was when
\* the reply holds no value.
GetPost_KeepOnAbsent(reply, kind, old) ==
    IF reply.Value.isNil THEN [err |-> NoErr, val |-> old]
    ELSE unmarshalTableValue(reply.Value, kind, old)

\* The Post of a Get call of GetStruct (lines 506-509) for a field of the
\* given kind that holds old: [err, val].
GetPost(reply, kind, old) == unmarshalTableValue(reply.Value, kind, old)

\* The calls of a GetStruct from i on are sent and their Posts run in call
\* order on record v; e is the first error so far: [err, v].
RECURSIVE RunGetCalls(_, _, _, _, _, _)
RunGetCalls(st, m, cs, i, v, e) ==
    IF i > Len(cs) THEN [err |-> e, v |-> v]
    ELSE LET u == GetPost(StoreGet(st, cs[i].key), m.fields[cs[i].col],
                          v[cs[i].col])
         IN  RunGetCalls(st, m, cs, i + 1, [v EXCEPT ![cs[i].col] = u.val],
                         IF e = NoErr THEN u.err ELSE e)

\* runOneResult on a batch b holding one GetStruct of a record holding v.
RunGet(b, t, v) ==
    IF FirstErr(b.results, 1) # NoErr
    THEN [err |-> FirstErr(b.results, 1), v |-> v]
    ELSE RunGetCalls(store, experimentalModels[t], b.calls, 1, v, NoErr)

\* The caller's err and record after a GetStruct.
GetReturn(r) ==
    /\ err' = r.err
    /\ obj' = r.v

\* db.GetStruct(obj, columns...), obj a record holding o.v or a pointer to
\* one.
DBGetStruct(o, isPtr, columns) ==
    /\ call = NoCall
    /\ GetReturn(RunGet(GetStruct(NewBatch, experimentalModels, o.t, isPtr, o.v,
                                  columns), o.t, o.v))
    /\ call' = [op |-> "GetStruct", o |-> o, isPtr |-> isPtr, columns |-> columns]
    /\ UNCHANGED <<experimentalModels, store, written, rows, ret, calls, results,
                   names, descs, idgen, procs>>

\* The operation returns to the caller, who drops its arguments.
ReturnGet ==
    /\ call # NoCall
    /\ call' = NoCall
    /\ err' = NoErr
    /\ obj' = TagA
    /\ UNCHANGED <<experimentalModels, store, written, rows, ret, calls, results,
                   names, descs, idgen, procs>>

NextGet ==
    \/ \E o \in KVObjects, columns \in PutColumnLists : DBPutStruct(o, columns)
    \/ \E o \in KVObjects, columns \in DelColumnLists : DBDelStruct(o, columns)
    \/ \E o \in KVObjects \cup {BlobObject}, isPtr \in BOOLEAN,
          columns \in GetColumnLists :
         DBGetStruct(o, isPtr, columns)
    \/ ReturnGet

SpecGet == Init /\ [][NextGet]_vars

\* db.GetStruct was called with a pointer to a record of the bound type and
\* columns that are fields of it.
GetRan ==
    /\ call.op = "GetStruct" /\ call.isPtr /\ call.o.t = "KV"
    /\ \A i \in 1..Len(call.columns) : call.columns[i] \in {"K", "V", "N"}

\* C15: GetStruct of a column that was deleted or never written returns no
\* error and sets the field of the record to the zero value of its type,
\* whatever the field held before; a column that is stored is set to the
\* stored value.
C15_AbsentColumnReadsZero ==
    GetRan =>
        /\ err = NoErr
        /\ \A c \in {"K", "V", "N"} :
              obj[c] =
                IF c \notin Range(NamedColumns(experimentalModels["KV"], call.columns))
                THEN call.o.v[c]
                ELSE IF KVCell(call.o.v.K, c) \in DOMAIN written
                THEN written[KVCell(call.o.v.K, c)]
                ELSE ZeroOf(getDBFields("KV")[c])

\* C15: the record of key "a" was written, its column V deleted, and
\* GetStruct of V into a record whose V held "b" set V to the empty string.
C15_Witness ==
    /\ GetRan /\ call.columns = <<"V">>
    /\ call.o.v = RecA1
    /\ KVCell(RecA1.K, "N") \in DOMAIN written
    /\ KVCell(RecA1.K, "V") \notin DOMAIN written
    /\ err = NoErr
    /\ obj = [RecA1 EXCEPT !.V = <<>>]

(***************************************************************************)
(* SpecScanErr: two record types, KV and Alt, are bound to the same table  *)
(* kv.  Alt has a column N of another type than KV's and a column X that   *)
(* KV lacks, so a scan into a sequence of KV fails on the cells written    *)
(* through Alt.  The caller keeps the sequence from one scan to the next.  *)
(***************************************************************************)
MaxDest == 2

AltAB == [K |-> <<97, 98>>, N |-> <<120>>, X |-> <<121>>]

ScanErrObjects ==
    {[t |-> "KV", v |-> RecA1], [t |-> "KV", v |-> RecAB],
     [t |-> "Alt", v |-> AltAB]}

InitScanErr ==
    /\ \E order \in OtherColumnOrders("KV", <<"K">>),
          other \in OtherColumnOrders("Alt", <<"K">>) :
         experimentalModels =
            BindModelRegistry(
                BindModelRegistry(<<>>, "kv", "KV", <<"K">>, order),
                "kv", "Alt", <<"K">>, other)
    /\ store = EmptyStore
    /\ written = <<>>
    /\ call = NoCall
    /\ err = NoErr
    /\ rows = <<>>
    /\ obj = TagA
    /\ ret = <<>>
    /\ InitOther

\* db.ScanStruct(&dest, start, end, maxRows, columns...), dest the caller's
\* sequence of KV, which holds rows.
DBScanInto(start, end, maxRows, columns) ==
    /\ call = NoCall
    /\ Len(rows) < MaxDest
    /\ RunScan(ScanStruct(NewBatch, experimentalModels, TRUE, start.t,
                          start.t, start.v, end.t, end.v, maxRows, columns))
    /\ call' = [op |-> "ScanStruct", start |-> start, end |-> end,
                maxRows |-> maxRows, columns |-> columns, dest |-> rows]
    /\ UNCHANGED <<experimentalModels, store, written, obj, ret, calls, results,
                   names, descs, idgen, procs>>

\* The operation returns to the caller, who keeps dest.
ReturnKeep ==
    /\ call # NoCall
    /\ call' = NoCall
    /\ err' = NoErr
    /\ UNCHANGED <<experimentalModels, store, written, rows, obj, ret, calls,
                   results, names, descs, idgen, procs>>

NextScanErr ==
    \/ \E o \in ScanErrObjects, columns \in {<<>>, <<"N">>, <<"X">>} :
         DBPutStruct(o, columns)
    \/ \E end \in EndBounds, maxRows \in 0..MaxRows, columns \in {<<>>, <<"V">>} :
         DBScanInto([t |-> "KV", v |-> RecA1], end, maxRows, columns)
    \/ ReturnKeep

SpecScanErr == InitScanErr /\ [][NextScanErr]_vars

\* The reply of the scan of the call.
ScanReply ==
    StoreScan(store, encodePrimaryKey(experimentalModels["KV"], call.start.v).key,
              encodePrimaryKey(experimentalModels["KV"], call.end.v).key,
              call.maxRows)

\* The record key and the column name in the key of a pair.
PairKey(row) ==
    decodePrimaryKey(experimentalModels["KV"], row.Key, ZeroRecord("KV")).v.K
PairColumn(row) ==
    BytesStr(decodePrimaryKey(experimentalModels["KV"], row.Key,
                              ZeroRecord("KV")).rest)

\* Reconstruction fails on a pair: its column passes the filter and is no
\* column of KV, or its value is not of the type of the column.
PairFails(row) ==
    /\ call.columns = <<>> \/ PairColumn(row) \in Range(call.columns)
    /\ \/ PairColumn(row) \notin {"K", "V", "N"}
       \/ PairColumn(row) = "N" /\ row.Value.hasBytes
       \/ PairColumn(row) \in {"K", "V"} /\ row.Value.hasInt

\* The index of the first pair of the reply on which reconstruction fails,
\* 0 when there is none.
FirstFailure ==
    IF \E i \in 1..Len(ScanReply) : PairFails(ScanReply[i])
    THEN CHOOSE i \in 1..Len(ScanReply) :
            /\ PairFails(ScanReply[i])
            /\ \A j \in 1..(i - 1) : ~PairFails(ScanReply[j])
    ELSE 0

\* The keys of the records completed from the pairs before the failure.
CompletedKeys ==
    {PairKey(ScanReply[j]) : j \in 1..(FirstFailure - 1)}
        \ {PairKey(ScanReply[FirstFailure])}

ScanAborted == call.op = "ScanStruct" /\ FirstFailure > 0

\* C17: when reconstruction aborts on a pair of the reply, the error is
\* returned and the records completed from the earlier pairs of the reply
\* have been appended to the caller's destination sequence.
C17_PartialRecordsKept ==
    ScanAborted =>
        /\ err # NoErr
        /\ Len(rows) = Len(call.dest) + Cardinality(CompletedKeys)
        /\ SubSeq(rows, 1, Len(call.dest)) = call.dest
        /\ \A i \in 1..Cardinality(CompletedKeys) :
              rows[Len(call.dest) + i].K \in CompletedKeys

\* C17: when reconstruction aborts on a pair of the reply, the error is
\* returned and the caller's destination sequence is as it was before the
\* scan: the records completed from the earlier pairs are not in it.
C17_FailedScanLeavesDest ==
    ScanAborted =>
        /\ err \in {"unable to find field", "unable to unmarshal"}
        /\ rows = call.dest

\* C17: a scan into a sequence that held a record completed the record of
\* key "a", failed on a pair of key "ab", and left the sequence as it was.
C17_Witness ==
    /\ ScanAborted
    /\ CompletedKeys = {<<97>>}
    /\ call.dest # <<>>
    /\ err = "unable to unmarshal"
    /\ rows = call.dest

(***************************************************************************)
(* SpecRun: a caller adds structured operations to one batch, each with a  *)
(* destination of its own, and runs the batch: the executor sends the      *)
(* calls, then runs the Post of every call that has one, in call order.    *)
(* obj holds the destinations in the order the operations were added, ret  *)
(* the replies and the indices of the calls whose Post has run, written    *)
(* the operations that were added.                                         *)
(***************************************************************************)
RecA9 == [K |-> <<97>>, V |-> <<>>, N |-> 9]

\* The call c with the Post that the operation gave it: the closure holds
\* the operation's destination (lines 506-509, 605-609, 673-734), here the
\* index of the destination in obj, and the column the call was built for.
WithPost(c, dest) ==
    [f \in DOMAIN c \cup {"Post"} |-> IF f = "Post" THEN dest ELSE c[f]]

\* BindPosts with one destination for the Posts of every operation.
BindPosts_Shared(cs, from, dest) ==
    [i \in 1..Len(cs) |-> IF i >= from THEN WithPost(cs[i], 1) ELSE cs[i]]

\* The calls cs of a batch, those from index from on being the calls an
\* operation with destination dest appended.
BindPosts(cs, from, dest) ==
    [i \in 1..Len(cs) |-> IF i >= from THEN WithPost(cs[i], dest) ELSE cs[i]]

\* The state after db.BindModel("kv", KV{}, "K") and
\* db.PutStruct(KV{"a", "b", 1}).
InitRun ==
    /\ \E order \in OtherColumnOrders("KV", <<"K">>) :
         /\ experimentalModels = BindModelRegistry(<<>>, "kv", "KV", <<"K">>, order)
         /\ store = SendCalls(EmptyStore,
                        PutStruct(NewBatch,
                                  BindModelRegistry(<<>>, "kv", "KV", <<"K">>, order),
                                  "KV", FALSE, RecA1, <<>>).calls, 1)
    /\ written = <<>>
    /\ call = NoCall
    /\ err = NoErr
    /\ rows = <<>>
    /\ obj = <<>>
    /\ ret = [replies |-> <<>>, ran |-> <<>>]
    /\ InitOther

\* The batch, the destinations and the history after an operation that was
\* given destination d.
Added(b, d, op) ==
    /\ calls' = BindPosts(b.calls, Len(calls) + 1, Len(obj) + 1)
    /\ results' = b.results
    /\ obj' = Append(obj, d)
    /\ written' = Append(written, op)

\* b.GetStruct(&v, columns...).
AddGetStruct(v, columns) ==
    /\ call = NoCall /\ Len(results) < MaxOps
    /\ Added(GetStruct([calls |-> calls, results |-> results],
                       experimentalModels, "KV", TRUE, v, columns),
             v, [op |-> "GetStruct", v |-> v, columns |-> columns])
    /\ UNCHANGED <<experimentalModels, store, call, err, rows, ret, names, descs,
                   idgen, procs>>

\* b.IncStruct(&v, 1, column).
AddIncStruct(v, column) ==
    /\ call = NoCall /\ Len(results) < MaxOps
    /\ Added(IncStruct([calls |-> calls, results |-> results],
                       experimentalModels, "KV", TRUE, v, 1, column),
             v, [op |-> "IncStruct", v |-> v, columns |-> <<column>>])
    /\ UNCHANGED <<experimentalModels, store, call, err, rows, ret, names, descs,
                   idgen, procs>>

\* b.ScanStruct(&dest, start, end, 0, columns...), dest an empty sequence.
AddScanStruct(start, end, columns) ==
    /\ call = NoCall /\ Len(results) < MaxOps
    /\ Added(ScanStruct([calls |-> calls, results |-> results],
                        experimentalModels, TRUE, "KV", "KV", start, "KV", end,
                        0, columns),
             <<>>, [op |-> "ScanStruct", v |-> start, columns |-> columns])
    /\ UNCHANGED <<experimentalModels, store, call, err, rows, ret, names, descs,
                   idgen, procs>>

\* b.PutStruct(v, columns...): its calls have no Post.
AddPutStruct(v, columns) ==
    /\ call = NoCall /\ Len(results) < MaxOps
    /\ LET b == PutStruct([calls |-> calls, results |-> results],
                          experimentalModels, "KV", FALSE, v, columns)
       IN  calls' = b.calls /\ results' = b.results
    /\ obj' = Append(obj, v)
    /\ written' = Append(written, [op |-> "PutStruct", v |-> v, columns |-> columns])
    /\ UNCHANGED <<experimentalModels, store, call, err, rows, ret, names, descs,
                   idgen, procs>>

\* The store and the replies after the calls from i on were executed in
\* order.
RECURSIVE SendFrom(_, _, _, _)
SendFrom(st, cs, i, replies) ==
    IF i > Len(cs) THEN [st |-> st, replies |-> replies]
    ELSE CASE cs[i].op = "Get" ->
                SendFrom(st, cs, i + 1, Append(replies, StoreGet(st, cs[i].key)))
           [] cs[i].op = "Put" ->
                SendFrom(StorePut(st, cs[i].key, cs[i].value), cs, i + 1,
                         Append(replies, [op |-> "Put"]))
           [] cs[i].op = "Inc" ->
                LET new == Narrow(GetInteger(StoreGet(st, cs[i].key).Value))
                               + cs[i].value
                IN  SendFrom(StorePut(st, cs[i].key, IntValue(Wide(new))), cs,
                             i + 1, Append(replies, [NewValue |-> new]))
           [] cs[i].op = "Scan" ->
                SendFrom(st, cs, i + 1,
                         Append(replies,
                                [Rows |-> StoreScan(st, cs[i].key, cs[i].endKey,
                                                    cs[i].maxRows)]))

\* The executor sends the calls of the batch and has their replies.
SendBatch ==
    /\ call = NoCall /\ calls # <<>>
    /\ FirstErr(results, 1) = NoErr
    /\ LET sent == SendFrom(store, calls, 1, <<>>) IN
         /\ store' = sent.st
         /\ ret' = [replies |-> sent.replies, ran |-> <<>>]
    /\ call' = [op |-> "Run", next |-> 1]
    /\ UNCHANGED <<experimentalModels, written, err, rows, obj, calls, results,
                   names, descs, idgen, procs>>

\* IncPost that leaves the field as it was.
IncPost_KeepField(reply, kind, old) == [err |-> NoErr, val |-> old]

\* The Post of an Increment call of IncStruct (lines 605-609) for a field
\* of the given kind that holds old.
IncPost(reply, kind, old) ==
    unmarshalTableValue(IntValue(Wide(reply.NewValue)), kind, old)

\* c.Post() for call c with the given reply and destination d: [err, d].
RunPostOf(m, c, reply, d) ==
    CASE c.op = "Get" ->
            LET u == GetPost(reply, m.fields[c.col], d[c.col])
            IN  [err |-> u.err, d |-> [d EXCEPT ![c.col] = u.val]]
      [] c.op = "Inc" ->
            LET u == IncPost(reply, m.fields[c.col], d[c.col])
            IN  [err |-> u.err, d |-> [d EXCEPT ![c.col] = u.val]]
      [] c.op = "Scan" ->
            LET p == ScanPost(m, c.modelT, reply.Rows, c.columns, d)
            IN  [err |-> p.err, d |-> p.dest]

\* What the Post of the next call leaves.
PostRan(i, p) ==
    /\ obj' = [obj EXCEPT ![calls[i].Post] = p.d]
    /\ err' = IF err = NoErr THEN p.err ELSE err
    /\ ret' = [ret EXCEPT !.ran = Append(@, i)]

\* The executor runs the Post of the next call.
RunPost ==
    /\ call.op = "Run" /\ call.next <= Len(calls)
    /\ "Post" \in DOMAIN calls[call.next]
    /\ PostRan(call.next,
               RunPostOf(experimentalModels["KV"], calls[call.next],
                         ret.replies[call.next], obj[calls[call.next].Post]))
    /\ call' = [call EXCEPT !.next = @ + 1]
    /\ UNCHANGED <<experimentalModels, store, written, rows, calls, results,
                   names, descs, idgen, procs>>

\* The next call has no Post.
SkipPost ==
    /\ call.op = "Run" /\ call.next <= Len(calls)
    /\ "Post" \notin DOMAIN calls[call.next]
    /\ call' = [call EXCEPT !.next = @ + 1]
    /\ UNCHANGED <<experimentalModels, store, written, err, rows, obj, ret, calls,
                   results, names, descs, idgen, procs>>

NextRun ==
    \/ \E v \in {RecA9, RecC}, columns \in {<<>>, <<"V">>, <<"N", "V">>} :
         AddGetStruct(v, columns)
    \/ \E v \in {RecA9, RecC} : AddIncStruct(v, "N")
    \/ \E columns \in {<<>>, <<"V">>} : AddScanStruct(RecA1, RecZ, columns)
    \/ AddPutStruct(RecC, <<"V">>)
    \/ SendBatch
    \/ RunPost
    \/ SkipPost

SpecRun == InitRun /\ [][NextRun]_vars

\* What a call is: its primitive, its key, its column (none for a scan)
\* and the destination of its Post (none for a put).
CallSummary(c) ==
    [op |-> c.op, key |-> c.key,
     col |-> IF c.op = "Scan" THEN "" ELSE IF "col" \in DOMAIN c THEN c.col ELSE "",
     dest |-> IF "Post" \in DOMAIN c THEN c.Post ELSE 0]

\* The calls the k-th operation added is to append, in the order of its
\* columns.
OpCalls(k) ==
    LET g == written[k]
        m == experimentalModels["KV"]
        pk == encodePrimaryKey(m, g.v).key
        cols == NamedColumns(m, g.columns)
    IN  IF g.op = "ScanStruct"
        THEN <<[op |-> "Scan", key |-> pk, col |-> "", dest |-> k]>>
        ELSE [j \in 1..Len(cols) |->
                [op |-> PrimitiveOf(g.op), key |-> encodeColumnKey(pk, cols[j]),
                 col |-> IF g.op = "PutStruct" THEN "" ELSE cols[j],
                 dest |-> IF g.op = "PutStruct" THEN 0 ELSE k]]

\* The calls of the first k operations added, in the order they were added.
RECURSIVE OpCallsUpTo(_)
OpCallsUpTo(k) == IF k = 0 THEN <<>> ELSE OpCallsUpTo(k - 1) \o OpCalls(k)

\* The indices below n of the calls that have a Post, in ascending order.
RECURSIVE PostsBelow(_)
PostsBelow(n) ==
    IF n <= 1 THEN <<>>
    ELSE IF "Post" \in DOMAIN calls[n - 1] THEN Append(PostsBelow(n - 1), n - 1)
    ELSE PostsBelow(n - 1)

\* The field of a kind that a stored value unmarshals to.
FieldFrom(kind, value) ==
    IF value.isNil THEN ZeroOf(kind)
    ELSE IF kind = "string" THEN value.Bytes ELSE Narrow(value.Integer)

\* The destination of the call at index i holds, in the column of the call,
\* what the reply to that call gave; a scan's destination holds as many
\* records as the reply to the scan has keys.
HoldsOwnReply(i) ==
    LET c == calls[i]
        m == experimentalModels["KV"]
    IN  CASE c.op = "Get" ->
                obj[c.Post][c.col] = FieldFrom(m.fields[c.col], ret.replies[i].Value)
          [] c.op = "Inc" -> obj[c.Post][c.col] = ret.replies[i].NewValue
          [] c.op = "Scan" ->
                Len(obj[c.Post]) =
                    Cardinality({PairKey(ret.replies[i].Rows[j]) :
                                    j \in 1..Len(ret.replies[i].Rows)})
          [] c.op = "Put" -> TRUE

\* C20: the calls of a batch are the calls of its operations in the order
\* the operations were added and, within an operation, in the order of its
\* columns, each call of GetStruct, IncStruct and ScanStruct with a Post
\* bound to the destination of its own operation; the Posts run only once
\* the replies are there, in call order, each once, and each leaves in its
\* own destination what the reply to its own call gave.
C20_PostsInCallOrder ==
    /\ [i \in 1..Len(calls) |-> CallSummary(calls[i])] = OpCallsUpTo(Len(written))
    /\ call = NoCall => ret.ran = <<>>
    /\ call # NoCall =>
          /\ Len(ret.replies) = Len(calls)
          /\ ret.ran = PostsBelow(call.next)
          /\ \A n \in 1..Len(ret.ran) : HoldsOwnReply(ret.ran[n])
          /\ \A k \in 1..Len(obj) :
                (\A n \in 1..Len(ret.ran) : calls[ret.ran[n]].Post # k) =>
                    obj[k] = IF written[k].op = "ScanStruct" THEN <<>>
                             ELSE written[k].v

\* C20: a batch of a PutStruct of column V of the record of key "c" and a
\* GetStruct of its columns N and V was run: the first call has no Post, the
\* Posts of calls 2 and 3 ran in that order and left the zero N and the V
\* just put in the destination of the GetStruct.
C20_Witness ==
    /\ call.op = "Run" /\ call.next = 4
    /\ Len(written) = 2
    /\ written[1].op = "PutStruct" /\ written[2].op = "GetStruct"
    /\ written[2].columns = <<"N", "V">>
    /\ ret.ran = <<2, 3>>
    /\ obj[2] = [K |-> <<99>>, V |-> <<100>>, N |-> 0]

(***************************************************************************)
(* SpecInc: callers run db.IncStruct concurrently, each on a record of its *)
(* own.  A call is two steps: the executor sends the batch, the store      *)
(* applying the increment at once, and later the Post writes the reply     *)
(* into the caller's record.  procs holds the callers, ret the callers in  *)
(* the order their increments were applied, written the value of column N  *)
(* of each key before any call.                                            *)
(***************************************************************************)
NumCallers == 2

Callers == 1..NumCallers
Deltas == {-1, 2}
IncRecords == {RecA9, RecC}

\* The number stored under column N of the record of key k, 0 when none is.
StoredN(st, k) ==
    Narrow(GetInteger(StoreGet(st,
        encodeColumnKey(encodePrimaryKey(experimentalModels["KV"],
                                         [RecA9 EXCEPT !.K = k]).key, "N")).Value))

InitInc ==
    /\ \E order \in OtherColumnOrders("KV", <<"K">>), stored \in BOOLEAN :
         /\ experimentalModels = BindModelRegistry(<<>>, "kv", "KV", <<"K">>, order)
         /\ store = IF stored
                    THEN SendCalls(EmptyStore,
                            PutStruct(NewBatch,
                                BindModelRegistry(<<>>, "kv", "KV", <<"K">>, order),
                                "KV", FALSE, RecA1, <<>>).calls, 1)
                    ELSE EmptyStore
         /\ written = [k \in {r.K : r \in IncRecords} |->
                          IF stored /\ k = RecA1.K THEN RecA1.N ELSE 0]
    /\ procs = [p \in Callers |-> [pc |-> "idle"]]
    /\ call = NoCall
    /\ err = NoErr
    /\ rows = <<>>
    /\ obj = TagA
    /\ ret = <<>>
    /\ calls = <<>>
    /\ results = <<>>
    /\ names = <<>>
    /\ descs = <<>>
    /\ idgen = 0

\* What the send of batch b of caller p leaves: the store after the calls,
\* and the caller waiting with its calls and their replies.
IncSent(p, v, delta, b, sent) ==
    /\ store' = sent.st
    /\ procs' = [procs EXCEPT ![p] =
                    [pc |-> "sent", v |-> v, delta |-> delta, calls |-> b.calls,
                     replies |-> sent.replies]]
    /\ ret' = Append(ret, p)

\* db.IncStruct(&v, delta, "N") of caller p up to the reply: the batch of
\* one IncStruct is built and sent.
IncSend(p, v, delta, b) ==
    /\ procs[p].pc = "idle"
    /\ FirstErr(b.results, 1) = NoErr
    /\ IncSent(p, v, delta, b, SendFrom(store, b.calls, 1, <<>>))
    /\ UNCHANGED <<experimentalModels, written, call, err, rows, obj, calls,
                   results, names, descs, idgen>>

\* The Post of the call of caller p runs and db.IncStruct returns.
IncReturn(p) ==
    /\ procs[p].pc = "sent"
    /\ procs' = [procs EXCEPT ![p] =
                    [@ EXCEPT !.pc = "done",
                              !.v = RunPostOf(experimentalModels["KV"],
                                              procs[p].calls[1],
                                              procs[p].replies[1], @).d]]
    /\ UNCHANGED <<experimentalModels, store, written, call, err, rows, obj, ret,
                   calls, results, names, descs, idgen>>

NextInc ==
    \/ \E p \in Callers, v \in IncRecords, delta \in Deltas :
         IncSend(p, v, delta,
                 IncStruct(NewBatch, experimentalModels, "KV", TRUE, v, delta, "N"))
    \/ \E p \in Callers : IncReturn(p)

SpecInc == InitInc /\ [][NextInc]_vars

\* The sum of the deltas of the first n increments applied to key k.
RECURSIVE DeltaSum(_, _)
DeltaSum(n, k) ==
    IF n = 0 THEN 0
    ELSE DeltaSum(n - 1, k) +
         (IF procs[ret[n]].v.K = k THEN procs[ret[n]].delta ELSE 0)

\* The place of caller p in the order the increments were applied.
PlaceOf(p) == CHOOSE n \in 1..Len(ret) : ret[n] = p

\* C21: IncStruct issues exactly one increment, on the key of the column;
\* under every interleaving of concurrent IncStruct calls the value stored
\* under a column key is the initial value plus the sum of the deltas of the
\* increments applied to it, and after its reply each caller's field holds
\* the value its own increment produced.
C21_IncrementWriteBack ==
    /\ \A k \in DOMAIN written : StoredN(store, k) = written[k] + DeltaSum(Len(ret), k)
    /\ \A p \in Callers :
          procs[p].pc # "idle" =>
              /\ Len(procs[p].calls) = 1
              /\ procs[p].calls[1].op = "Inc"
              /\ procs[p].calls[1].value = procs[p].delta
              /\ procs[p].calls[1].key =
                    encodeColumnKey(
                        encodePrimaryKey(experimentalModels["KV"], procs[p].v).key,
                        "N")
    /\ \A p \in Callers :
          procs[p].pc = "done" =>
              /\ procs[p].v.N = written[procs[p].v.K] + DeltaSum(PlaceOf(p), procs[p].v.K)
              /\ procs[p].v.V = IF procs[p].v.K = RecA9.K THEN RecA9.V ELSE RecC.V

\* C21: column N of the record of key "a" is stored as 1; caller 1's
\* increment by 2 was applied and its Post has not run; meanwhile caller 2
\* incremented by -1 and returned with 2 in its field, the value the store
\* holds.
C21_Witness ==
    /\ written[RecA9.K] = 1
    /\ ret = <<1, 2>>
    /\ procs[1].pc = "sent" /\ procs[2].pc = "done"
    /\ procs[1].delta = 2 /\ procs[2].delta = -1
    /\ procs[1].v = RecA9 /\ procs[1].replies[1].NewValue = 3
    /\ procs[2].v = [RecA9 EXCEPT !.N = 2]
    /\ StoredN(store, RecA9.K) = 2

=============================================================================
